---- MODULE Spec2Model ----
(***************************************************************************)
(* MornSteamUploadHelper: the monitors that infer the state of the         *)
(* external SteamCMD console (LoginMonitor, ConsoleMonitor) and the        *)
(* command delivery (CommandSender), modelled from src/src/*.py.           *)
(*                                                                         *)
(* Text is a sequence of atoms.  An atom is an indivisible fragment of     *)
(* console output; every phrase the code searches for is a sequence of     *)
(* atoms, and Python's `phrase in text` is "phrase is a contiguous         *)
(* subsequence of text".  One atom stands for one byte of file offset.     *)
(***************************************************************************)
EXTENDS Integers, Sequences, FiniteSets, TLC

VARIABLES
    platform,            \* platform.system(): "Windows", "Darwin" or "Linux"
    buf,                 \* classifier input: one text buffer
    verdict,             \* classifier outputs for buf
    files,               \* file system: canonical path -> content, or Absent
    proc_alive,          \* a steamcmd.exe process / a Terminal window exists
    windows,             \* macOS Terminal: sequence of window texts
    _stop_monitoring,    \* LoginMonitor._stop_monitoring (class attribute)
    _mobile_2fa_shown,   \* LoginMonitor._mobile_2fa_shown (class attribute)
    sess,                \* LoginMonitor threads: session id -> record
    is_logged_in,        \* helper.is_logged_in
    steamcmd_terminal,   \* helper.steamcmd_terminal
    login_button_disabled, \* LoginManager.login_button.disabled
    tail,                \* one start_positions map driven call by call
    console,             \* console monitor: one check of the console status
    sender,              \* CommandSender.send_command: desktop and call state
    transfer,            \* UploadManager: handlers, progress dialogs, completion monitors
    login_manager        \* LoginManager: its dialogs, the launch script, its LoginMonitor

vars == <<platform, buf, verdict, files, proc_alive, windows, _stop_monitoring,
          _mobile_2fa_shown, sess, is_logged_in, steamcmd_terminal,
          login_button_disabled, tail, console, sender, transfer, login_manager>>

(***************************************************************************)
(* Bounds of the model.                                                    *)
(***************************************************************************)
MaxBufLen == 3       \* longest enumerated classifier buffer, in atoms
MaxTimeout == 1      \* largest timeout argument of monitor_login, in seconds
MaxFileLen == 3      \* longest log file / window text, in atoms
MaxCalls == 3        \* _check_log_content calls on one start_positions map
MaxMonitorCount == 4 \* console monitor ticks
MaxGrace == 2        \* largest grace_period_checks
MaxThreads == 3      \* console monitor threads created in one run
MaxHandlers == 2     \* click handlers running at the same time
MaxMonitors == 2     \* completion monitor threads started in one run

Platforms == {"Windows", "Darwin", "Linux"}

(***************************************************************************)
(* Text.                                                                   *)
(***************************************************************************)
Atoms == {"WaitingForUserInfo", "OK", "LoggedIn_", "LoggingInUser", "Prompt",
          "WaitingForConfirmation", "ProtectedByA_", "SteamGuardMobileAuth",
          "FAILED", "_login", "LoginFailure", "InvalidPassword",
          "RateLimitExceeded", "TwoFactorMismatch", "steamcmd", "other"}

\* The phrases of the source, as atom sequences.
P_WaitingForUserInfo == <<"WaitingForUserInfo">>      \* "Waiting for user info..."
P_OK == <<"OK">>                                        \* "OK"
P_LoggedInOK == <<"LoggedIn_", "OK">>                  \* "Logged in OK"
P_LoggingInUser == <<"LoggingInUser">>                \* "Logging in user"
P_Prompt == <<"Prompt">>                                \* "Steam>"
P_WaitingForConfirmation == <<"WaitingForConfirmation">>
P_SteamGuardMobileAuth == <<"SteamGuardMobileAuth">>  \* "Steam Guard mobile authenticator"
P_ProtectedBy == <<"ProtectedByA_", "SteamGuardMobileAuth">>
P_WaitingForUserInfoOK == <<"WaitingForUserInfo", "OK">> \* "Waiting for user info...OK"
P_FAILED == <<"FAILED">>                                \* "FAILED"
P_FAILEDlogin == <<"FAILED", "_login">>                \* "FAILED login"
P_LoginFailure == <<"LoginFailure">>                  \* "Login Failure"
P_InvalidPassword == <<"InvalidPassword">>
P_RateLimitExceeded == <<"RateLimitExceeded">>
P_TwoFactorMismatch == <<"TwoFactorMismatch">>        \* "Two-factor code mismatch"
P_steamcmd == <<"steamcmd">>

\* Python: phrase in text.
Contains(text, phrase) ==
    \E i \in 0..(Len(text) - Len(phrase)) :
        SubSeq(text, i + 1, i + Len(phrase)) = phrase

\* Python: text.find(phrase, start); 0-based, -1 when absent.
Find(text, phrase, start) ==
    LET hits == {i \in start..(Len(text) - Len(phrase)) :
                    SubSeq(text, i + 1, i + Len(phrase)) = phrase}
    IN IF hits = {} THEN -1
       ELSE CHOOSE i \in hits : \A j \in hits : i <= j

\* All texts of at most n atoms over the alphabet A.
RECURSIVE TextsUpTo(_, _)
TextsUpTo(A, n) ==
    IF n = 0 THEN {<<>>}
    ELSE LET shorter == TextsUpTo(A, n - 1)
         IN shorter \cup {Append(t, a) : t \in {s \in shorter : Len(s) = n - 1}, a \in A}

(***************************************************************************)
(* LoginMonitor._check_log_content, lines 262-313: the classification of   *)
(* the new content of one log file.  "continue" is falling out of the      *)
(* with-block: the loop goes on to the next file.                          *)
(***************************************************************************)
LoginFailurePhrases ==
    {P_FAILEDlogin, P_InvalidPassword, P_RateLimitExceeded, P_TwoFactorMismatch}

classify_new_content(new_content) ==
    LET user_info_pos == Find(new_content, P_WaitingForUserInfo, 0)
        ok_pos == Find(new_content, P_OK, user_info_pos)
    IN
    IF new_content = <<>> THEN "continue"
    ELSE IF /\ Contains(new_content, P_WaitingForUserInfo)
            /\ Contains(new_content, P_OK)
            /\ ok_pos > user_info_pos
         THEN "success"
    ELSE IF Contains(new_content, P_LoggedInOK) THEN "success"
    ELSE IF /\ Contains(new_content, P_LoggingInUser)
            /\ Contains(new_content, P_OK)
            /\ Contains(new_content, P_Prompt)
         THEN "success"
    ELSE IF Contains(new_content, P_WaitingForConfirmation) THEN "mobile_2fa_waiting"
    ELSE IF /\ Contains(new_content, P_SteamGuardMobileAuth)
            /\ ~Contains(new_content, P_WaitingForUserInfo)
         THEN "mobile_2fa_waiting"
    ELSE IF \E phrase \in LoginFailurePhrases : Contains(new_content, phrase)
         THEN "failed"
    ELSE "continue"

(***************************************************************************)
(* LoginMonitor._monitor_macos, lines 443-470: the AppleScript that        *)
(* classifies the text of the Terminal windows.  A window that passes no   *)
(* branch leaves loginStatus alone and the repeat goes to the next window. *)
(***************************************************************************)
check_script_window(tabContent) ==
    IF Contains(tabContent, P_steamcmd) \/ Contains(tabContent, P_Prompt)
    THEN IF Contains(tabContent, P_WaitingForUserInfoOK) THEN "logged_in"
         ELSE IF Contains(tabContent, P_FAILED) /\ Contains(tabContent, P_LoginFailure)
              THEN "failed"
         ELSE IF Contains(tabContent, P_TwoFactorMismatch) THEN "failed"
         ELSE IF Contains(tabContent, P_ProtectedBy) THEN "mobile_2fa"
         ELSE "unknown"
    ELSE "unknown"

RECURSIVE check_script(_)
check_script(ws) ==
    IF ws = <<>> THEN "unknown"
    ELSE LET here == check_script_window(Head(ws))
         IN IF here # "unknown" THEN here ELSE check_script(Tail(ws))

\* _monitor_macos lines 477-490: the status names of the log path for the
\* three outcomes the loop acts on.
macos_status(loginStatus) ==
    CASE loginStatus = "logged_in" -> "success"
      [] loginStatus = "failed" -> "failed"
      [] loginStatus = "mobile_2fa" -> "mobile_2fa_waiting"
      [] OTHER -> "unknown"

(***************************************************************************)
(* Files.  A raw path is what _get_log_files builds with os.path.join; a   *)
(* canonical path is what os.path.abspath makes of it.  The file system is *)
(* indexed by canonical path.  "D" is the directory of steamcmd, "P" its   *)
(* parent directory.                                                       *)
(***************************************************************************)
_get_log_files ==
    << "D/logs/console_log.txt",
       "D/logs/connection_log.txt",
       "D/logs/stderr.txt",
       "D/logs/stdout.txt",
       "D/../logs/console_log.txt",
       "D/../logs/connection_log.txt",
       "D/../logs/stderr.txt",
       "D/builder/logs/console_log.txt",
       "D/builder/logs/connection_log.txt" >>

\* os.path.abspath: steamcmd_dir is absolute and normalised already, so the
\* only thing left to normalise is the ".." component.
abspath(path) ==
    CASE path = "D/../logs/console_log.txt" -> "P/logs/console_log.txt"
      [] path = "D/../logs/connection_log.txt" -> "P/logs/connection_log.txt"
      [] path = "D/../logs/stderr.txt" -> "P/logs/stderr.txt"
      [] OTHER -> path

RawPaths == {_get_log_files[i] : i \in DOMAIN _get_log_files}
CanonicalPaths == {abspath(p) : p \in RawPaths}

\* The candidates that exist in the model, and the one SteamCMD appends to
\* during a session; the other candidates never exist.
PresentFiles == {"D/logs/console_log.txt", "P/logs/console_log.txt"}
WrittenFiles == {"D/logs/console_log.txt"}

NoFile == [exists |-> FALSE, content |-> <<>>]

\* os.path.exists / os.path.getsize follow the path to the file.
path_exists(fs, path) == fs[abspath(path)].exists
getsize(fs, path) == Len(fs[abspath(path)].content)

EmptyMap == [k \in {} |-> 0]
MapPut(m, k, v) == [x \in DOMAIN m \cup {k} |-> IF x = k THEN v ELSE m[x]]
\* dict.get(key, default)
MapGet(m, k, default) == IF k \in DOMAIN m THEN m[k] ELSE default

(***************************************************************************)
(* LoginMonitor._check_log_content, lines 220-319.  The result carries the *)
(* returned status, the start_positions map as the call leaves it, and     *)
(* what the call read: for every file it opened, the offset it seeked to   *)
(* and the number of atoms read() returned.                                *)
(***************************************************************************)
\* The offset stored after the read is the size of the file.
f_tell_getsize(start_pos, content) == Len(content)

\* lines 227-234: f.seek(start_pos); f.read(); f.tell().  A seek past the
\* end of the file reads nothing and stays where it is.
f_tell(start_pos, content) ==
    IF start_pos >= Len(content) THEN start_pos ELSE Len(content)

RECURSIVE check_files(_, _, _, _, _)
check_files(log_files, i, start_positions, fs, reads) ==
    IF i > Len(log_files)
    THEN [status |-> "unknown", start_positions |-> start_positions, reads |-> reads]
    ELSE
    LET log_path == abspath(log_files[i]) IN
    IF ~fs[log_path].exists
    THEN check_files(log_files, i + 1, start_positions, fs, reads)
    ELSE
    LET content == fs[log_path].content
        start_pos == MapGet(start_positions, log_path, 0)
        new_content == IF start_pos >= Len(content) THEN <<>>
                       ELSE SubSeq(content, start_pos + 1, Len(content))
        tell == f_tell(start_pos, content)
        positions2 == MapPut(start_positions, log_path, tell)
        reads2 == MapPut(reads, log_path, [from |-> start_pos, n |-> Len(new_content)])
        status == classify_new_content(new_content)
    IN IF status = "continue"
       THEN check_files(log_files, i + 1, positions2, fs, reads2)
       ELSE [status |-> status, start_positions |-> positions2, reads |-> reads2]

_check_log_content(log_files, start_positions, fs) ==
    check_files(log_files, 1, start_positions, fs, EmptyMap)

\* _monitor_windows lines 326-337: the initial positions, keyed by the raw
\* path of the list.
RECURSIVE initial_positions(_, _, _, _)
initial_positions(log_files, i, fs, log_positions) ==
    IF i > Len(log_files) THEN log_positions
    ELSE LET log_path == log_files[i] IN
         initial_positions(log_files, i + 1, fs,
             IF path_exists(fs, log_path)
             THEN MapPut(log_positions, log_path, getsize(fs, log_path))
             ELSE log_positions)

(***************************************************************************)
(* The classifier on one buffer, for both platform paths.                  *)
(***************************************************************************)
OneFile(text) ==
    [p \in CanonicalPaths |->
        IF p = "D/logs/console_log.txt" THEN [exists |-> TRUE, content |-> text]
        ELSE NoFile]

classify_log(text) == _check_log_content(_get_log_files, EmptyMap, OneFile(text)).status
classify_macos(text) == macos_status(check_script(<<text>>))

(***************************************************************************)
(* LoginMonitor sessions.                                                  *)
(***************************************************************************)
\* The threads of one run: the first login and a login started again while
\* the first thread may still be polling.
Sessions == {"first", "retry"}

NoCalls == [on_success |-> 0, on_failure |-> 0, on_process_ended |-> 0,
            on_timeout |-> 0, on_mobile_2fa |-> 0]

\* A thread that has not been started yet.
IdleSession ==
    [pc |-> "idle", timeout |-> 0, check_count |-> 0, max_checks |-> 0,
     log_positions |-> EmptyMap,
     size_at_start |-> EmptyMap,   \* history: getsize of the files found at start
     first_read |-> EmptyMap,      \* history: offset of the first read of each file
     calls |-> NoCalls,            \* history: how often each callback was invoked
     last_probe |-> "none",        \* history: what the liveness probe of the
                                   \* latest tick reported, if not a live process
     stop_seen |-> FALSE,          \* history: left the loop on the stop flag
     stop_called |-> FALSE,        \* history: stop_monitoring was called while
                                   \* this session was in its loop
     mobile_seen |-> FALSE]        \* history: a tick of this session classified
                                   \* mobile_2fa_waiting

TerminalCalls(s) ==
    sess[s].calls.on_success + sess[s].calls.on_failure
        + sess[s].calls.on_process_ended + sess[s].calls.on_timeout

\* The lines SteamCMD appends to its log, and prints in its Terminal window.
LogChunks == {P_WaitingForUserInfoOK, P_SteamGuardMobileAuth, P_TwoFactorMismatch}
TerminalChunks == {P_WaitingForUserInfoOK, P_ProtectedBy, P_TwoFactorMismatch}

\* What a log file that exists before any session holds: the end of an
\* earlier run.
InitialContents == {P_LoggedInOK}

LogPath == platform # "Darwin"

\* LoginManager's handlers, lines 190-274, on the helper's flags.
callback_is_logged_in(name, old) ==
    CASE name = "on_success" -> TRUE
      [] name \in {"on_failure", "on_process_ended"} -> FALSE
      [] OTHER -> old

callback_steamcmd_terminal(name, old) ==
    CASE name \in {"on_failure", "on_process_ended"} -> FALSE
      [] OTHER -> old

callback_login_button_disabled(name, old) ==
    CASE name \in {"on_failure", "on_process_ended"} -> FALSE
      [] OTHER -> old

Invoke(s, name, rec) ==
    /\ sess' = [sess EXCEPT ![s] =
                    [rec EXCEPT !.calls = [@ EXCEPT ![name] = @ + 1]]]
    /\ is_logged_in' = callback_is_logged_in(name, is_logged_in)
    /\ steamcmd_terminal' = callback_steamcmd_terminal(name, steamcmd_terminal)
    /\ login_button_disabled' =
            callback_login_button_disabled(name, login_button_disabled)

NoInvoke(s, rec) ==
    /\ sess' = [sess EXCEPT ![s] = rec]
    /\ UNCHANGED <<is_logged_in, steamcmd_terminal, login_button_disabled>>

other_vars == <<buf, verdict, tail, console, sender, transfer, login_manager>>

\* LoginMonitor.stop_monitoring, lines 174-177.
stop_monitoring ==
    /\ \E s \in Sessions : sess[s].pc \in {"sleep", "loop"}
    /\ ~_stop_monitoring
    /\ _stop_monitoring' = TRUE
    /\ sess' = [s \in Sessions |->
                    IF sess[s].pc = "loop" THEN [sess[s] EXCEPT !.stop_called = TRUE]
                    ELSE sess[s]]
    /\ UNCHANGED <<platform, files, proc_alive, windows, _mobile_2fa_shown,
                   is_logged_in, steamcmd_terminal, login_button_disabled, other_vars>>

\* One check per second on the log path too.
max_checks_windows_per_second(timeout) == timeout

\* line 345 and line 420
max_checks_windows(timeout) == timeout * 2
max_checks_macos(timeout) == timeout

\* The new thread up to its first sleep.  _monitor_windows lines 324-339:
\* the positions at the start of the session, then the 2 s sleep.
\* _monitor_macos lines 416-420: the flag reset, then the loop.
monitor_thread_start(s, timeout) ==
    IF LogPath
    THEN LET log_positions == initial_positions(_get_log_files, 1, files, EmptyMap)
         IN /\ sess' = [sess EXCEPT ![s] =
                    [IdleSession EXCEPT
                        !.pc = "sleep",
                        !.timeout = timeout,
                        !.log_positions = log_positions,
                        !.size_at_start =
                            [p \in {abspath(k) : k \in DOMAIN log_positions} |->
                                Len(files[p].content)]]]
            /\ UNCHANGED _mobile_2fa_shown
    ELSE /\ sess' = [sess EXCEPT ![s] =
                    [IdleSession EXCEPT !.pc = "loop",
                                        !.timeout = timeout,
                                        !.check_count = 0,
                                        !.max_checks = max_checks_macos(timeout)]]
         /\ _mobile_2fa_shown' = FALSE

\* The login button's click, LoginManager._login_button_click and
\* login_to_steam_console, lines 103-170, with the LoginMonitor.monitor_login
\* it ends in (platform_helpers.py lines 179-201), which resets the stop
\* flag and starts a new thread.  A disabled button takes no click.
login_to_steam_console(s, timeout) ==
    /\ ~login_button_disabled
    /\ sess[s].pc = "idle"
    /\ s = "retry" => sess["first"].pc # "idle"
    /\ steamcmd_terminal' = TRUE
    /\ is_logged_in' = FALSE
    /\ login_button_disabled' = TRUE
    /\ _stop_monitoring' = FALSE
    /\ monitor_thread_start(s, timeout)
    /\ UNCHANGED <<platform, files, proc_alive, windows, other_vars>>

\* _monitor_windows lines 341-345, after the sleep: the flag reset.
monitor_windows_reset(s) ==
    /\ LogPath
    /\ sess[s].pc = "sleep"
    /\ _mobile_2fa_shown' = FALSE
    /\ sess' = [sess EXCEPT ![s].pc = "loop",
                            ![s].check_count = 0,
                            ![s].max_checks = max_checks_windows(sess[s].timeout)]
    /\ UNCHANGED <<platform, files, proc_alive, windows, _stop_monitoring,
                   is_logged_in, steamcmd_terminal, login_button_disabled, other_vars>>

\* The outcomes of `tasklist /FI "IMAGENAME eq steamcmd.exe"`, lines 362-376:
\* stdout lists the process or not, stdout is empty (tasklist failed), or
\* subprocess.run raises (always on Linux, where there is no tasklist).
\* A tasklist that runs on Linux as it does on Windows.
tasklist_outcomes_everywhere ==
    {IF proc_alive THEN "listed" ELSE "not_listed", "empty", "raise"}

tasklist_outcomes ==
    IF platform = "Linux" THEN {"raise"}
    ELSE {IF proc_alive THEN "listed" ELSE "not_listed", "empty", "raise"}

\* Only the empty output ends the session.
process_ended_windows_empty_only(probe) == probe = "empty"

\* line 370: `not result.stdout or "steamcmd.exe" not in result.stdout`
process_ended_windows(probe) == probe \in {"not_listed", "empty"}

\* The probe outcomes that report a live process or report nothing.
probe_history(probe) == IF probe \in {"listed", "some", "raise"} THEN "none" ELSE probe

\* The first read offsets of a session, extended by one call's reads.
note_first_reads(first_read, reads) ==
    [p \in DOMAIN first_read \cup DOMAIN reads |->
        IF p \in DOMAIN first_read THEN first_read[p] ELSE reads[p].from]

\* A loop that goes on polling after a success or a failure.
act_on_status_no_break(s, status, rec) ==
    CASE status = "success" ->
            /\ Invoke(s, "on_success", [rec EXCEPT !.check_count = @ + 1])
            /\ UNCHANGED _mobile_2fa_shown
      [] status = "failed" ->
            /\ Invoke(s, "on_failure", [rec EXCEPT !.check_count = @ + 1])
            /\ UNCHANGED _mobile_2fa_shown
      [] status = "mobile_2fa_waiting" /\ ~_mobile_2fa_shown ->
            /\ _mobile_2fa_shown' = TRUE
            /\ Invoke(s, "on_mobile_2fa", [rec EXCEPT !.check_count = @ + 1,
                                                       !.mobile_seen = TRUE])
      [] OTHER ->
            /\ NoInvoke(s, [rec EXCEPT !.check_count = @ + 1,
                                       !.mobile_seen = @ \/ status = "mobile_2fa_waiting"])
            /\ UNCHANGED _mobile_2fa_shown

\* _monitor_windows lines 382-399 and _monitor_macos lines 479-490: what the
\* loop does with a status.
act_on_status(s, status, rec) ==
    CASE status = "success" ->
            /\ Invoke(s, "on_success", [rec EXCEPT !.pc = "after"])
            /\ UNCHANGED _mobile_2fa_shown
      [] status = "failed" ->
            /\ Invoke(s, "on_failure", [rec EXCEPT !.pc = "after"])
            /\ UNCHANGED _mobile_2fa_shown
      [] status = "mobile_2fa_waiting" /\ ~_mobile_2fa_shown ->
            /\ _mobile_2fa_shown' = TRUE
            /\ Invoke(s, "on_mobile_2fa", [rec EXCEPT !.check_count = @ + 1,
                                                       !.mobile_seen = TRUE])
      [] OTHER ->
            /\ NoInvoke(s, [rec EXCEPT !.check_count = @ + 1,
                                       !.mobile_seen = @ \/ status = "mobile_2fa_waiting"])
            /\ UNCHANGED _mobile_2fa_shown

\* _monitor_windows lines 354-402: one iteration of the loop.
monitor_windows_tick(s) ==
    /\ LogPath
    /\ sess[s].pc = "loop"
    /\ sess[s].check_count < sess[s].max_checks
    /\ LET entered == sess[s] IN
       IF _stop_monitoring
       THEN /\ NoInvoke(s, [entered EXCEPT !.pc = "after", !.stop_seen = TRUE,
                                           !.last_probe = "none"])
            /\ UNCHANGED _mobile_2fa_shown
       ELSE \E probe \in tasklist_outcomes :
            LET probed == [entered EXCEPT !.last_probe = probe_history(probe)] IN
            IF process_ended_windows(probe)
            THEN /\ Invoke(s, "on_process_ended", [probed EXCEPT !.pc = "after"])
                 /\ UNCHANGED _mobile_2fa_shown
            ELSE LET r == _check_log_content(_get_log_files, sess[s].log_positions, files)
                     read == [probed EXCEPT
                                 !.log_positions = r.start_positions,
                                 !.first_read = note_first_reads(@, r.reads)]
                 IN act_on_status(s, r.status, read)
    /\ UNCHANGED <<platform, files, proc_alive, windows, _stop_monitoring, other_vars>>

\* The outcomes of `osascript -e 'tell application "Terminal" to count
\* windows'`, lines 433-440: the count, a non-zero return code, or
\* subprocess.run raising, which nothing in _monitor_macos catches.
window_check_outcomes == {IF Len(windows) = 0 THEN "zero" ELSE "some", "failed", "raise"}

\* line 438: `window_check.returncode != 0 or window_check.stdout.strip() == "0"`
process_ended_macos(probe) == probe \in {"zero", "failed"}

\* The outcomes of the second osascript call, lines 472-478: the script's
\* loginStatus, or a non-zero return code (no status this tick).
check_script_outcomes == {check_script(windows), "failed_call"}

\* _monitor_macos lines 425-493: one iteration of the loop.
monitor_macos_tick(s) ==
    /\ ~LogPath
    /\ sess[s].pc = "loop"
    /\ sess[s].check_count < sess[s].max_checks
    /\ LET entered == sess[s] IN
       IF _stop_monitoring
       THEN /\ NoInvoke(s, [entered EXCEPT !.pc = "after", !.stop_seen = TRUE,
                                           !.last_probe = "none"])
            /\ UNCHANGED _mobile_2fa_shown
       ELSE \E probe \in window_check_outcomes :
            LET probed == [entered EXCEPT !.last_probe = probe_history(probe)] IN
            IF probe = "raise"
            THEN /\ NoInvoke(s, [probed EXCEPT !.pc = "crashed"])
                 /\ UNCHANGED _mobile_2fa_shown
            ELSE IF process_ended_macos(probe)
            THEN /\ Invoke(s, "on_process_ended", [probed EXCEPT !.pc = "after"])
                 /\ UNCHANGED _mobile_2fa_shown
            ELSE \E out \in check_script_outcomes :
                    act_on_status(s, macos_status(out), probed)
    /\ UNCHANGED <<platform, files, proc_alive, windows, _stop_monitoring, other_vars>>

\* A timeout reported after every way out of the loop.
timed_out_always(check_count, max_checks) == TRUE

\* line 410 and line 499: `if check_count >= max_checks`
timed_out(check_count, max_checks) == check_count >= max_checks

\* _monitor_windows lines 410-411, _monitor_macos lines 499-500: after the loop.
monitor_after_loop(s) ==
    /\ \/ sess[s].pc = "after"
       \/ sess[s].pc = "loop" /\ sess[s].check_count >= sess[s].max_checks
    /\ IF timed_out(sess[s].check_count, sess[s].max_checks)
       THEN Invoke(s, "on_timeout", [sess[s] EXCEPT !.pc = "done"])
       ELSE NoInvoke(s, [sess[s] EXCEPT !.pc = "done"])
    /\ UNCHANGED <<platform, files, proc_alive, windows, _stop_monitoring,
                   _mobile_2fa_shown, other_vars>>

(***************************************************************************)
(* SteamCMD and the user, as the monitors see them.                        *)
(***************************************************************************)
Running == \E s \in Sessions : sess[s].pc \notin {"idle", "done", "crashed"}

\* SteamCMD appends a line to a log file (creating the file if need be).
append_log(path, chunk) ==
    /\ LogPath /\ Running
    /\ Len(files[path].content) + Len(chunk) <= MaxFileLen
    /\ files' = [files EXCEPT ![path] =
                    [exists |-> TRUE, content |-> files[path].content \o chunk]]
    /\ UNCHANGED <<platform, proc_alive, windows, _stop_monitoring, _mobile_2fa_shown,
                   sess, is_logged_in, steamcmd_terminal, login_button_disabled, other_vars>>

\* SteamCMD prints a line in its Terminal window.
terminal_output(chunk) ==
    /\ ~LogPath /\ Running
    /\ Len(windows) > 0
    /\ Len(windows[1]) + Len(chunk) <= MaxFileLen
    /\ windows' = [windows EXCEPT ![1] = @ \o chunk]
    /\ UNCHANGED <<platform, files, proc_alive, _stop_monitoring, _mobile_2fa_shown,
                   sess, is_logged_in, steamcmd_terminal, login_button_disabled, other_vars>>

\* The console is closed or SteamCMD exits.
console_closes ==
    /\ Running
    /\ proc_alive
    /\ proc_alive' = FALSE
    /\ windows' = <<>>
    /\ UNCHANGED <<platform, files, _stop_monitoring, _mobile_2fa_shown,
                   sess, is_logged_in, steamcmd_terminal, login_button_disabled, other_vars>>

IdleRest ==
    /\ buf = <<>> /\ verdict = "none"
    /\ tail = "none" /\ console = "none" /\ sender = "none" /\ transfer = "none" /\ login_manager = "none"

LoginInit ==
    /\ platform \in Platforms
    /\ files \in {f \in [CanonicalPaths -> {NoFile} \cup
                            {[exists |-> TRUE, content |-> c] : c \in InitialContents}] :
                    /\ \A p \in CanonicalPaths \ PresentFiles : f[p] = NoFile
                    /\ platform = "Darwin" => \A p \in CanonicalPaths : f[p] = NoFile}
    /\ proc_alive = TRUE
    /\ windows = <<P_steamcmd>>
    /\ _stop_monitoring = FALSE
    /\ _mobile_2fa_shown = FALSE
    /\ sess = [s \in Sessions |-> IdleSession]
    /\ is_logged_in = FALSE
    /\ steamcmd_terminal = FALSE
    /\ login_button_disabled = FALSE
    /\ IdleRest

LoginNext ==
    \/ \E s \in Sessions, t \in 1..MaxTimeout : login_to_steam_console(s, t)
    \/ stop_monitoring
    \/ \E s \in Sessions : monitor_windows_reset(s)
    \/ \E s \in Sessions : monitor_windows_tick(s)
    \/ \E s \in Sessions : monitor_macos_tick(s)
    \/ \E s \in Sessions : monitor_after_loop(s)
    \/ \E p \in WrittenFiles, c \in LogChunks : append_log(p, c)
    \/ \E c \in TerminalChunks : terminal_output(c)
    \/ console_closes

Spec == LoginInit /\ [][LoginNext]_vars

\* LoginManager.check_content_builder_paths, lines 75-101, run when the
\* system settings change (main_app.py line 422): with a valid SteamCMD path
\* it enables the login button, whatever the state of the login.
check_content_builder_paths ==
    /\ login_button_disabled
    /\ sess["retry"].pc = "idle"
    /\ login_button_disabled' = FALSE
    /\ UNCHANGED <<platform, files, proc_alive, windows, _stop_monitoring,
                   _mobile_2fa_shown, sess, is_logged_in, steamcmd_terminal,
                   other_vars>>

OverlapNext == LoginNext \/ check_content_builder_paths

SpecOverlap == LoginInit /\ [][OverlapNext]_vars

(***************************************************************************)
(* A log-tailing session whose log receives "Waiting for user info..." and *)
(* "OK" as separate writes, so that a tick can fall between the two.       *)
(***************************************************************************)
SplitChunks == {P_WaitingForUserInfo, P_OK, <<"other">>}

SplitInit ==
    /\ platform \in {"Windows", "Linux"}
    /\ files = [p \in CanonicalPaths |-> NoFile]
    /\ proc_alive = TRUE
    /\ windows = <<>>
    /\ _stop_monitoring = FALSE
    /\ _mobile_2fa_shown = FALSE
    /\ sess = [s \in Sessions |-> IdleSession]
    /\ is_logged_in = FALSE
    /\ steamcmd_terminal = FALSE
    /\ login_button_disabled = FALSE
    /\ IdleRest

SplitNext ==
    \/ \E t \in 1..MaxTimeout : login_to_steam_console("first", t)
    \/ monitor_windows_reset("first")
    \/ monitor_windows_tick("first")
    \/ monitor_after_loop("first")
    \/ \E p \in WrittenFiles, c \in SplitChunks : append_log(p, c)

SpecSplit == SplitInit /\ [][SplitNext]_vars

(***************************************************************************)
(* Claims about the LoginMonitor sessions.                                 *)
(***************************************************************************)

C2_MobileAtMostOnce ==
    \A s \in Sessions : sess[s].calls.on_mobile_2fa <= 1

\* The probe outcomes that report the process / the window gone.
GoneProbes == {"not_listed", "zero"}

\* C3: a tick whose liveness probe reports the process gone invokes
\* on_process_ended in that tick and ends the loop, and the session invokes
\* none of on_success, on_failure, on_timeout.
C3_ProcessEndedWins ==
    \A s \in Sessions :
        sess[s].last_probe \in GoneProbes =>
            /\ sess[s].pc \in {"after", "done"}
            /\ sess[s].calls.on_process_ended = 1
            /\ sess[s].calls.on_success = 0
            /\ sess[s].calls.on_failure = 0
            /\ sess[s].calls.on_timeout = 0

\* The probe reported the process gone in a tick whose unread log text holds
\* a success or failure marker.
C3_Witness ==
    \E s \in Sessions :
        /\ LogPath
        /\ sess[s].last_probe \in GoneProbes
        /\ sess[s].pc = "done"
        /\ _check_log_content(_get_log_files, sess[s].log_positions, files).status
               \in {"success", "failed"}

\* C5: the first read of a file that existed when the session started
\* starts at the file's size at session start.
C5_FirstReadAtStartSize ==
    \A s \in Sessions :
        \A p \in DOMAIN sess[s].first_read \cap DOMAIN sess[s].size_at_start :
            sess[s].first_read[p] = sess[s].size_at_start[p]

\* The tick budget of the claim: 2*T ticks on the log path, T on macOS.
Budget(s) == IF LogPath THEN 2 * sess[s].timeout ELSE sess[s].timeout

C10_State ==
    \A s \in Sessions :
        /\ sess[s].calls.on_timeout >= 1 =>
                sess[s].calls.on_timeout = 1 /\ sess[s].check_count = Budget(s)
        /\ ( /\ sess[s].pc = "done"
             /\ ~sess[s].stop_seen
             /\ sess[s].calls.on_success = 0
             /\ sess[s].calls.on_failure = 0
             /\ sess[s].calls.on_process_ended = 0 )
            => sess[s].calls.on_timeout = 1

C10_Frame ==
    \A s \in Sessions :
        sess'[s].calls.on_timeout # sess[s].calls.on_timeout =>
            UNCHANGED <<is_logged_in, steamcmd_terminal, proc_alive, windows>>

C11_StopEndsSession ==
    [][\A s \in Sessions :
          ( /\ sess[s].stop_called
            /\ sess[s].pc = "loop"
            /\ sess[s].check_count < sess[s].max_checks
            /\ sess'[s] # sess[s] )
          => /\ sess'[s].calls = sess[s].calls
             /\ sess'[s].pc = "after"]_vars

\* A session whose thread is alive and before or in its polling loop.
Polling(s) ==
    \/ sess[s].pc = "sleep"
    \/ sess[s].pc = "loop" /\ sess[s].check_count < sess[s].max_checks

\* What the next read of a log file returns to session s.
new_content_of(s, path) ==
    LET content == files[abspath(path)].content
        start_pos == MapGet(sess[s].log_positions, abspath(path), 0)
    IN IF start_pos >= Len(content) THEN <<>>
       ELSE SubSeq(content, start_pos + 1, Len(content))

\* A step that is a tick of session s on the log path and reaches the log
\* check: the stop flag is unset and the liveness probe does not end the
\* session.
LogCheckTick(s) ==
    /\ LogPath
    /\ sess[s].pc = "loop"
    /\ sess[s].check_count < sess[s].max_checks
    /\ ~_stop_monitoring /\ ~_stop_monitoring'
    /\ sess'[s] # sess[s]
    /\ sess'[s].calls.on_process_ended = sess[s].calls.on_process_ended

\* C27: the tick that reads the mobile-authenticator line invokes
\* on_mobile_2fa and goes on polling; the tick that reads "Waiting for user
\* info...OK" invokes on_success and ends the loop; on_mobile_2fa is not
\* invoked once the session has invoked a terminal callback.
C27_MobileThenSuccess ==
    [][\A s \in Sessions :
         /\ ( /\ LogCheckTick(s)
              /\ new_content_of(s, _get_log_files[1]) = P_SteamGuardMobileAuth
              /\ ~_mobile_2fa_shown )
            => /\ sess'[s].calls.on_mobile_2fa = sess[s].calls.on_mobile_2fa + 1
               /\ sess'[s].calls.on_success = sess[s].calls.on_success
               /\ sess'[s].pc = "loop"
         /\ ( /\ LogCheckTick(s)
              /\ new_content_of(s, _get_log_files[1]) = P_WaitingForUserInfoOK )
            => /\ sess'[s].calls.on_success = sess[s].calls.on_success + 1
               /\ sess'[s].calls.on_mobile_2fa = sess[s].calls.on_mobile_2fa
               /\ sess'[s].pc = "after"
         /\ TerminalCalls(s) >= 1
            => sess'[s].calls.on_mobile_2fa = sess[s].calls.on_mobile_2fa]_vars

\* The authenticator line and then "Waiting for user info...OK" were
\* appended to a log file created during the session; the session invoked
\* on_mobile_2fa in one tick and on_success in a later one, and has returned.
C27_Witness ==
    /\ LogPath
    /\ files[_get_log_files[1]].content = P_SteamGuardMobileAuth \o P_WaitingForUserInfoOK
    /\ ~files["P/logs/console_log.txt"].exists
    /\ sess["first"].pc = "done"
    /\ sess["first"].check_count >= 1
    /\ sess["first"].calls = [NoCalls EXCEPT !.on_mobile_2fa = 1, !.on_success = 1]

\* C28, the part the code keeps, for the first file of the list: a tick that
\* finds it created since the start reads it from byte 0, and invokes
\* on_success when it holds "Waiting for user info...OK"; a tick that finds
\* no candidate file invokes nothing and goes on polling.
C28_FirstFileReadFromZero ==
    [][\A s \in Sessions :
         LogCheckTick(s) =>
            /\ ( /\ path_exists(files, _get_log_files[1])
                 /\ _get_log_files[1] \notin DOMAIN sess[s].log_positions )
               => /\ sess'[s].first_read[_get_log_files[1]] = 0
                  /\ files[_get_log_files[1]].content = P_WaitingForUserInfoOK
                        => /\ sess'[s].calls.on_success = 1
                           /\ sess'[s].pc = "after"
            /\ (\A p \in CanonicalPaths : ~files[p].exists)
               => /\ sess'[s].calls = sess[s].calls
                  /\ sess'[s].pc = "loop"
                  /\ sess'[s].check_count = sess[s].check_count + 1]_vars

\* C24: on Linux no session invokes on_process_ended and no session thread
\* dies; a session that has left its loop did so on a success or failure
\* classification, on the stop flag, or with its budget used up.
C24_LinuxLogFilesOnly ==
    platform = "Linux" =>
        \A s \in Sessions :
            /\ sess[s].calls.on_process_ended = 0
            /\ sess[s].pc # "crashed"
            /\ sess[s].pc \in {"after", "done"} =>
                    \/ sess[s].calls.on_success + sess[s].calls.on_failure = 1
                    \/ sess[s].stop_seen
                    \/ sess[s].check_count >= sess[s].max_checks

\* On Linux the console has been closed, and the session polled on until its
\* budget was used up.
C24_Witness ==
    /\ platform = "Linux"
    /\ ~proc_alive
    /\ \E s \in Sessions :
          /\ sess[s].pc = "done"
          /\ sess[s].calls.on_timeout = 1
          /\ TerminalCalls(s) = 1

\* C25: with overlapping sessions each session invokes on_mobile_2fa at most
\* once, and a session that has classified mobile_2fa_waiting has invoked it.
C25_MobileStatePerSession ==
    \A s \in Sessions :
        sess[s].calls.on_mobile_2fa = (IF sess[s].mobile_seen THEN 1 ELSE 0)

\* C13: at most one LoginMonitor thread is polling at any time.
C13_OneLoginMonitor ==
    \A s, t \in Sessions : (Polling(s) /\ Polling(t)) => s = t

\* The probe outcomes of a failed probe call: empty output of tasklist, a
\* non-zero return code of osascript.
FailedProbes == {"empty", "failed"}

\* C14: a tick whose liveness probe call failed does not invoke
\* on_process_ended.
C14_FailedProbeIsNoInformation ==
    \A s \in Sessions :
        sess[s].last_probe \in FailedProbes => sess[s].calls.on_process_ended = 0

\* C15: no exception raised inside an iteration ends a LoginMonitor thread.
C15_IterationExceptionCaught ==
    \A s \in Sessions : sess[s].pc # "crashed"

(***************************************************************************)
(* The classifier as a function: a buffer is drawn, then classified the    *)
(* way each platform path classifies it.                                   *)
(***************************************************************************)
\* Buffers longer than the enumeration: a console that shows the
\* authenticator line and then the end of the login.
ScenarioBuffers ==
    { P_steamcmd \o P_ProtectedBy \o P_LoggedInOK,
      P_steamcmd \o P_ProtectedBy \o P_WaitingForUserInfoOK,
      P_Prompt \o P_ProtectedBy \o P_WaitingForUserInfo \o <<"other">> \o P_OK }

Buffers == TextsUpTo(Atoms, MaxBufLen) \cup ScenarioBuffers

LoginIdle ==
    /\ files = [p \in CanonicalPaths |-> NoFile]
    /\ proc_alive = TRUE
    /\ windows = <<>>
    /\ _stop_monitoring = FALSE
    /\ _mobile_2fa_shown = FALSE
    /\ sess = [s \in Sessions |-> IdleSession]
    /\ is_logged_in = FALSE
    /\ steamcmd_terminal = FALSE
    /\ login_button_disabled = FALSE

login_vars == <<files, proc_alive, windows, _stop_monitoring, _mobile_2fa_shown,
                sess, is_logged_in, steamcmd_terminal, login_button_disabled>>

ClassifyInit ==
    /\ platform = "Windows"
    /\ buf \in Buffers
    /\ verdict = [done |-> FALSE, log |-> "none", macos |-> "none"]
    /\ tail = "none" /\ console = "none" /\ sender = "none" /\ transfer = "none" /\ login_manager = "none"
    /\ LoginIdle

classify ==
    /\ ~verdict.done
    /\ verdict' = [done |-> TRUE, log |-> classify_log(buf),
                   macos |-> classify_macos(buf)]
    /\ UNCHANGED <<platform, buf, tail, console, sender, transfer, login_manager, login_vars>>

SpecClassify == ClassifyInit /\ [][classify]_vars

\* The markers as the claims name them.
FollowedLater(text, first, second) ==
    \E i, j \in 1..Len(text) : i < j /\ text[i] = first /\ text[j] = second

HasSuccessMarker(text) ==
    \/ FollowedLater(text, "WaitingForUserInfo", "OK")
    \/ Contains(text, P_LoggedInOK)
    \/ /\ Contains(text, P_LoggingInUser)
       /\ Contains(text, P_OK)
       /\ Contains(text, P_Prompt)

HasMobileMarker(text) ==
    \/ Contains(text, P_WaitingForConfirmation)
    \/ Contains(text, P_SteamGuardMobileAuth)

\* C4: a buffer with a success marker and a mobile-confirmation marker is
\* classified success, on the log path and on the macOS window-text path.
C4_SuccessBeatsMobile ==
    (verdict.done /\ HasSuccessMarker(buf) /\ HasMobileMarker(buf)) =>
        verdict.log = "success" /\ verdict.macos = "success"

\* The log path's half of C4, which the source satisfies.
C4_LogPathSuccessBeatsMobile ==
    (verdict.done /\ HasSuccessMarker(buf) /\ HasMobileMarker(buf)) =>
        verdict.log = "success"

HasFailurePhrase(text) == \E phrase \in LoginFailurePhrases : Contains(text, phrase)

\* C21: a buffer in which no success rule matches and which contains
\* "Waiting for confirmation" or "Steam Guard mobile authenticator" is
\* classified mobile_2fa_waiting by the log path.
C21_MobileMarkerClassified ==
    (verdict.done /\ ~HasSuccessMarker(buf) /\ HasMobileMarker(buf)) =>
        verdict.log = "mobile_2fa_waiting"

\* C22: a buffer with a login-failure phrase, a mobile-confirmation marker
\* and no success marker is classified failed by the log path.
C22_FailedBeatsMobile ==
    (verdict.done /\ HasFailurePhrase(buf) /\ HasMobileMarker(buf)
                  /\ ~HasSuccessMarker(buf)) =>
        verdict.log = "failed"

\* C30: a session that has read all the text appended to its log, the text
\* holding "Waiting for user info..." followed later by "OK", and that was
\* not ended by the liveness probe, has invoked on_success.
C30_SplitSuccessDetected ==
    LET s == "first"
        content == files[_get_log_files[1]].content
    IN ( /\ sess[s].pc \in {"loop", "after", "done"}
         /\ FollowedLater(content, "WaitingForUserInfo", "OK")
         /\ MapGet(sess[s].log_positions, _get_log_files[1], 0) = Len(content)
         /\ MapGet(sess[s].size_at_start, _get_log_files[1], 0) = 0
         /\ sess[s].calls.on_process_ended = 0 )
        => sess[s].calls.on_success = 1

(***************************************************************************)
(* One start_positions map, driven by appends and _check_log_content       *)
(* calls.                                                                  *)
(***************************************************************************)
TailFiles == {"D/logs/console_log.txt", "D/logs/connection_log.txt"}
TailChunks == {P_SteamGuardMobileAuth, <<"other">>}

\* The atoms a call read, as (path, offset) pairs.
ReadAtoms(reads) ==
    UNION {{<<p, i>> : i \in reads[p].from..(reads[p].from + reads[p].n - 1)} :
              p \in DOMAIN reads}

TailInit ==
    /\ platform = "Windows"
    /\ files \in {f \in [CanonicalPaths -> {NoFile} \cup
                            {[exists |-> TRUE, content |-> c] : c \in InitialContents}] :
                    \A p \in CanonicalPaths \ TailFiles : f[p] = NoFile}
    /\ tail = [start_positions |-> initial_positions(_get_log_files, 1, files, EmptyMap),
               calls |-> 0,                \* history: calls made
               appended |-> FALSE,         \* history: an append since the last call
               idle |-> FALSE,             \* history: the last call followed no append
               status |-> "none",          \* the last call's return value
               reads |-> EmptyMap,         \* history: what the last call read
               seen |-> {},                \* history: atoms read by earlier calls
               reread |-> FALSE]           \* history: a call read an atom again
    /\ buf = <<>> /\ verdict = "none" /\ console = "none" /\ sender = "none" /\ transfer = "none" /\ login_manager = "none"
    /\ proc_alive = TRUE
    /\ windows = <<>>
    /\ _stop_monitoring = FALSE
    /\ _mobile_2fa_shown = FALSE
    /\ sess = [s \in Sessions |-> IdleSession]
    /\ is_logged_in = FALSE
    /\ steamcmd_terminal = FALSE
    /\ login_button_disabled = FALSE

tail_rest == <<platform, buf, verdict, console, sender, transfer, login_manager, proc_alive, windows,
               _stop_monitoring, _mobile_2fa_shown, sess, is_logged_in,
               steamcmd_terminal, login_button_disabled>>

tail_append(path, chunk) ==
    /\ Len(files[path].content) + Len(chunk) <= MaxFileLen
    /\ files' = [files EXCEPT ![path] =
                    [exists |-> TRUE, content |-> files[path].content \o chunk]]
    /\ tail' = [tail EXCEPT !.appended = TRUE]
    /\ UNCHANGED tail_rest

tail_check ==
    /\ tail.calls < MaxCalls
    /\ LET r == _check_log_content(_get_log_files, tail.start_positions, files)
       IN tail' = [start_positions |-> r.start_positions,
                   calls |-> tail.calls + 1,
                   appended |-> FALSE,
                   idle |-> tail.calls >= 1 /\ ~tail.appended,
                   status |-> r.status,
                   reads |-> r.reads,
                   seen |-> tail.seen \cup ReadAtoms(r.reads),
                   reread |-> tail.reread \/ (ReadAtoms(r.reads) \cap tail.seen # {})]
    /\ UNCHANGED <<files, tail_rest>>

TailNext ==
    \/ \E p \in TailFiles, c \in TailChunks : tail_append(p, c)
    \/ tail_check

SpecTail == TailInit /\ [][TailNext]_vars

\* C6: a call that follows no append reads nothing and returns "unknown",
\* and no atom of any file is read by two calls.
C6_IdleCallReadsNothing ==
    /\ tail.idle => (tail.status = "unknown" /\ ReadAtoms(tail.reads) = {})
    /\ ~tail.reread

\* The second half of C6 alone, which the source satisfies.
C6_NoAtomReadTwice == ~tail.reread

\* C28: a call reads every existing candidate file that has no stored
\* offset yet (missing at the start, created since) whole, from byte 0; a
\* call made while no candidate exists returns "unknown".
C28_CreatedFileReadAtOnce ==
    [][tail'.calls = tail.calls + 1 =>
         /\ \A p \in CanonicalPaths :
                (files[p].exists /\ p \notin DOMAIN tail.start_positions) =>
                    /\ p \in DOMAIN tail'.reads
                    /\ tail'.reads[p] = [from |-> 0, n |-> Len(files[p].content)]
         /\ (\A p \in CanonicalPaths : ~files[p].exists) => tail'.status = "unknown"]_vars

\* C23: when a _check_log_content call has returned, the stored offset of
\* every existing candidate file is that file's end.
C23_AllOffsetsAtEOF ==
    (tail.calls >= 1 /\ ~tail.appended) =>
        \A p \in CanonicalPaths :
            files[p].exists =>
                MapGet(tail.start_positions, p, -1) = Len(files[p].content)

(***************************************************************************)
(* One start_positions map of a session whose log files grow and shrink    *)
(* between the _check_log_content calls.                                   *)
(***************************************************************************)
RotateInit ==
    /\ platform = "Windows"
    /\ files \in {f \in [CanonicalPaths -> {NoFile} \cup
                            {[exists |-> TRUE, content |-> c] : c \in InitialContents}] :
                    \A p \in CanonicalPaths \ TailFiles : f[p] = NoFile}
    /\ tail = [start_positions |-> initial_positions(_get_log_files, 1, files, EmptyMap),
               calls |-> 0,                \* history: calls made
               shrunk |-> FALSE]           \* history: a file shrank since the last call
    /\ buf = <<>> /\ verdict = "none" /\ console = "none" /\ sender = "none" /\ transfer = "none" /\ login_manager = "none"
    /\ proc_alive = TRUE
    /\ windows = <<>>
    /\ _stop_monitoring = FALSE
    /\ _mobile_2fa_shown = FALSE
    /\ sess = [s \in Sessions |-> IdleSession]
    /\ is_logged_in = FALSE
    /\ steamcmd_terminal = FALSE
    /\ login_button_disabled = FALSE

\* SteamCMD appends a line to a log file.
rotate_append(path, chunk) ==
    /\ Len(files[path].content) + Len(chunk) <= MaxFileLen
    /\ files' = [files EXCEPT ![path] =
                    [exists |-> TRUE, content |-> files[path].content \o chunk]]
    /\ UNCHANGED <<tail, tail_rest>>

\* A log file is cut back to a shorter prefix (rotated or rewritten).
rotate_truncate(path, n) ==
    /\ files[path].exists
    /\ n < Len(files[path].content)
    /\ files' = [files EXCEPT ![path].content = SubSeq(@, 1, n)]
    /\ tail' = [tail EXCEPT !.shrunk = TRUE]
    /\ UNCHANGED tail_rest

\* One _check_log_content call on the session's map.
rotate_check ==
    /\ tail.calls < MaxCalls
    /\ LET r == _check_log_content(_get_log_files, tail.start_positions, files)
       IN tail' = [start_positions |-> r.start_positions,
                   calls |-> tail.calls + 1,
                   shrunk |-> FALSE]
    /\ UNCHANGED <<files, tail_rest>>

RotateNext ==
    \/ \E p \in TailFiles, c \in TailChunks : rotate_append(p, c)
    \/ \E p \in TailFiles, n \in 0..MaxFileLen : rotate_truncate(p, n)
    \/ rotate_check

SpecRotate == RotateInit /\ [][RotateNext]_vars

\* C29: no stored read offset decreases, and none is dropped, in any step:
\* not by a call that follows appends, nor by one that follows a shrink.
C29_OffsetsNeverDecrease ==
    [][\A p \in CanonicalPaths :
          MapGet(tail'.start_positions, p, 0) >= MapGet(tail.start_positions, p, 0)]_vars

\* The first file of the list, which every call reads, shrank below its
\* stored offset before the last call, and the offset is still beyond the
\* file's end.
C29_Witness ==
    /\ tail.calls >= 1
    /\ ~tail.shrunk
    /\ files[_get_log_files[1]].exists
    /\ MapGet(tail.start_positions, _get_log_files[1], 0)
            > Len(files[_get_log_files[1]].content)

(***************************************************************************)
(* The console monitor.                                                    *)
(***************************************************************************)
\* What the OS probes of one tick return.
\*   count:    `count windows` of Terminal: "some", "zero", a non-zero return
\*             code ("failed"), or subprocess.run raising ("raise")
\*   found:    the second AppleScript printed "true"
\*   process:  pgrep / ps lists a steamcmd process
\*   tasklist: steamcmd.exe "listed", "not_listed", empty output, or "raise"
\*   cmd:      a cmd.exe window of the session is listed
ConsoleProbes ==
    [count : {"some", "zero", "failed", "raise"}, found : BOOLEAN, process : BOOLEAN,
     tasklist : {"listed", "not_listed", "empty", "raise"}, cmd : BOOLEAN]

\* ConsoleMonitor.check_console_status, platform_helpers.py lines 816-919:
\* result['closed'].
check_console_status(system, monitor_count, grace_period_checks, probes) ==
    CASE system = "Darwin" ->
            IF probes.count = "raise" THEN FALSE
            ELSE IF probes.count \in {"failed", "zero"} THEN TRUE
            ELSE IF ~probes.found THEN monitor_count > grace_period_checks
            ELSE IF ~probes.process THEN TRUE
            ELSE FALSE
      [] system = "Windows" ->
            IF probes.tasklist = "raise" THEN FALSE
            ELSE IF probes.tasklist # "listed" THEN monitor_count > grace_period_checks
            ELSE FALSE
      [] OTHER -> FALSE

\* console_monitor.py lines 27-100: console_closed of one iteration of
\* monitor_console, which has no grace period.
console_closed(system, probes) ==
    CASE system = "Darwin" ->
            IF probes.count = "raise" THEN FALSE
            ELSE IF probes.count \in {"failed", "zero"} THEN TRUE
            ELSE ~probes.found /\ ~probes.process
      [] system = "Windows" ->
            IF probes.tasklist = "raise" THEN FALSE
            ELSE probes.tasklist # "listed" /\ ~probes.cmd
      [] OTHER -> FALSE

console_rest == <<platform, buf, verdict, tail, sender, transfer, login_manager, files, proc_alive, windows,
                  _stop_monitoring, _mobile_2fa_shown, sess>>

ConsoleInit ==
    /\ platform \in Platforms
    /\ console \in [via : {"none"}, monitor_count : {0},
                    grace_period_checks : 0..MaxGrace, closed : {FALSE}]
    /\ is_logged_in = TRUE
    /\ steamcmd_terminal = TRUE
    /\ login_button_disabled = TRUE
    /\ buf = <<>> /\ verdict = "none" /\ tail = "none" /\ sender = "none" /\ transfer = "none" /\ login_manager = "none"
    /\ files = [p \in CanonicalPaths |-> NoFile]
    /\ proc_alive = TRUE
    /\ windows = <<>>
    /\ _stop_monitoring = FALSE
    /\ _mobile_2fa_shown = FALSE
    /\ sess = [s \in Sessions |-> IdleSession]

\* One call of ConsoleMonitor.check_console_status for the tick monitor_count.
check_console_status_call(monitor_count, probes) ==
    /\ console.via = "none"
    /\ console' = [console EXCEPT
                      !.via = "check_console_status",
                      !.monitor_count = monitor_count,
                      !.closed = check_console_status(platform, monitor_count,
                                     console.grace_period_checks, probes)]
    /\ UNCHANGED <<is_logged_in, steamcmd_terminal, login_button_disabled, console_rest>>

\* console_monitor.py lines 23-121: one iteration of monitor_console.
monitor_console_tick(probes) ==
    /\ console.via \in {"none", "monitor_console"}
    /\ is_logged_in /\ steamcmd_terminal
    /\ console.monitor_count < MaxMonitorCount
    /\ LET closed == console_closed(platform, probes) IN
       /\ console' = [console EXCEPT !.via = "monitor_console",
                                     !.monitor_count = @ + 1,
                                     !.closed = closed]
       /\ is_logged_in' = IF closed THEN FALSE ELSE is_logged_in
       /\ steamcmd_terminal' = IF closed THEN FALSE ELSE steamcmd_terminal
       /\ login_button_disabled' = IF closed THEN FALSE ELSE login_button_disabled
    /\ UNCHANGED console_rest

ConsoleNext ==
    \/ \E n \in 1..MaxMonitorCount, probes \in ConsoleProbes :
            check_console_status_call(n, probes)
    \/ \E probes \in ConsoleProbes : monitor_console_tick(probes)

SpecConsole == ConsoleInit /\ [][ConsoleNext]_vars

\* C7: the console is not reported closed, and the login state is not reset,
\* in a tick whose count is not greater than the grace-period tick count.
C7_NoCloseInGrace ==
    (console.via # "none" /\ console.monitor_count <= console.grace_period_checks) =>
        (~console.closed /\ is_logged_in /\ steamcmd_terminal)

\* C24, check_console_status and monitor_console: on Linux neither reports
\* the console closed.
C24_ConsoleStatusLinux == platform = "Linux" => ~console.closed

\* C7, the part the code keeps: on Windows check_console_status does not
\* report closed for a tick count within the grace period.
C7_WindowsStatusRespectsGrace ==
    ( /\ platform = "Windows"
      /\ console.via = "check_console_status"
      /\ console.monitor_count <= console.grace_period_checks ) => ~console.closed

(***************************************************************************)
(* CommandSender.send_command.                                             *)
(***************************************************************************)
\* The windows of the desktop: the SteamCMD console, a window of another
\* application, and a second console window that only shows a build log.
\* `title` is the window name as atoms, `terminal` says whether it is a
\* window of the console application (Terminal / cmd), `steamcmd` whether a
\* steamcmd process runs in one of its tabs.
Desktop ==
    [ steam_console |-> [title |-> <<"MornSteamCMD">>, terminal |-> TRUE, steamcmd |-> TRUE],
      editor        |-> [title |-> <<"notes">>, terminal |-> FALSE, steamcmd |-> FALSE],
      build_log     |-> [title |-> <<"BUILD", "SUCCESS">>, terminal |-> TRUE,
                         steamcmd |-> FALSE] ]

WindowIds == DOMAIN Desktop
\* The z-order in which the scripts enumerate the windows.
WindowOrder == <<"build_log", "editor", "steam_console">>

Commands == {<<"help">>, <<"run_app_build">>}
\* target_window_pattern, "Steam>" by default.
TargetPattern == P_Prompt

\* _send_windows lines 96-108: the visible windows that are candidates.
windows_candidate(id) ==
    \/ Contains(Desktop[id].title, TargetPattern)
    \/ Contains(Desktop[id].title, <<"steamcmd">>)
    \/ Contains(Desktop[id].title, <<"MornSteamCMD">>)

\* _send_macos lines 202-237: the Terminal windows that are the target.
macos_candidate(id) ==
    /\ Desktop[id].terminal
    /\ \/ Contains(Desktop[id].title, <<"MornSteamCMD">>)
       \/ Contains(Desktop[id].title, <<"HelpTest">>)
       \/ Contains(Desktop[id].title, <<"steamcmd">>)
       \/ Desktop[id].steamcmd

\* The first window of the enumeration order that is among the candidates.
RECURSIVE first_match(_, _)
first_match(order, candidates) ==
    IF order = <<>> THEN "none"
    ELSE IF Head(order) \in candidates THEN Head(order)
    ELSE first_match(Tail(order), candidates)

\* _send_macos lines 197-206: debugInfo holds the name of every Terminal
\* window looked at; the loop ends at the target.
RECURSIVE debug_info(_, _, _)
debug_info(order, open, target) ==
    IF order = <<>> THEN <<>>
    ELSE (IF Head(order) \in open /\ Desktop[Head(order)].terminal
          THEN Desktop[Head(order)].title ELSE <<>>)
         \o (IF Head(order) = target THEN <<>>
             ELSE debug_info(Tail(order), open, target))

\* What System Events types for `keystroke "<command>"` and `keystroke return`.
typed(command) == <<[key |-> "literal", text |-> command], [key |-> "return"]>>
\* What SendKeys sends for "^v{ENTER}".
pasted == <<[key |-> "paste"], [key |-> "enter"]>>

\* _send_windows, lines 39-183: the PowerShell script and the reading of its
\* output.  `outcome` is how the script's try block went: "ok", "error" (a
\* statement raised) or "timeout" (subprocess.run gave up after 10 s and
\* killed the script, here after it had focused the target).
send_windows(d, command, outcome) ==
    LET target == first_match(WindowOrder, {id \in d.open : windows_candidate(id)})
        stdout == IF target = "none" THEN <<"NOTFOUND">>
                  ELSE IF outcome = "ok" THEN <<"SUCCESS">>
                  ELSE IF outcome = "error" THEN <<"ERROR">>
                  ELSE <<>>
        originalWindow == d.foreground
    IN
    IF target = "none"
    THEN [d EXCEPT !.stdout = stdout, !.result = FALSE]
    ELSE [d EXCEPT
            !.focused = TRUE,
            !.foreground = IF outcome # "timeout" /\ originalWindow # "none"
                           THEN originalWindow ELSE target,
            !.clipboard = command,
            !.keys = IF outcome = "ok" THEN pasted ELSE <<>>,
            !.stdout = stdout,
            !.result = outcome # "timeout" /\ Contains(stdout, <<"SUCCESS">>)]

\* _send_macos, lines 186-301: the AppleScript and the reading of its
\* output.  `outcome` is how the System Events block went: "ok" or "error"
\* (osascript ends with a non-zero return code and prints nothing).
send_macos(d, command, outcome) ==
    LET target == first_match(WindowOrder, {id \in d.open : macos_candidate(id)})
        debugInfo == debug_info(WindowOrder, d.open, target)
        stdout == IF target = "none" THEN <<"NOTFOUND">> \o debugInfo
                  ELSE IF outcome = "ok" THEN <<"SUCCESS">> \o debugInfo
                  ELSE <<>>
        returncode == IF target # "none" /\ outcome # "ok" THEN 1 ELSE 0
        result == returncode = 0 /\ Contains(stdout, <<"SUCCESS">>)
    IN
    IF target = "none"
    THEN [d EXCEPT !.stdout = stdout, !.result = result]
    ELSE [d EXCEPT
            !.focused = TRUE,
            !.foreground = target,
            !.keys = IF outcome = "ok" THEN typed(command) ELSE <<>>,
            !.stdout = stdout,
            !.result = result]

\* _send_linux, lines 303-308.
send_linux(d, command) == [d EXCEPT !.result = FALSE]

SenderInit ==
    /\ platform \in Platforms
    /\ \E open \in SUBSET WindowIds, fg \in WindowIds \cup {"none"}, command \in Commands :
        /\ fg \in open \cup {"none"}
        /\ sender = [phase |-> "ready", open |-> open, foreground |-> fg,
                     clipboard |-> <<"earlier">>, keys |-> <<>>, command |-> command,
                     before |-> fg,        \* history: the foreground window at the call
                     focused |-> FALSE,    \* history: the call focused the target
                     outcome |-> "none",   \* history: how the script went
                     stdout |-> <<>>, result |-> FALSE]
    /\ buf = <<>> /\ verdict = "none" /\ tail = "none" /\ console = "none"
    /\ transfer = "none" /\ login_manager = "none"
    /\ LoginIdle

\* CommandSender.send_command, lines 13-36.
send_command(outcome) ==
    /\ sender.phase = "ready"
    /\ LET d == [sender EXCEPT !.phase = "returned", !.outcome = outcome] IN
       sender' = CASE platform = "Windows" -> send_windows(d, sender.command, outcome)
                   [] platform = "Darwin" -> send_macos(d, sender.command, outcome)
                   [] OTHER -> send_linux(d, sender.command)
    /\ UNCHANGED <<platform, buf, verdict, tail, console, transfer, login_manager, login_vars>>

SenderNext == \E outcome \in {"ok", "error", "timeout"} : send_command(outcome)

SpecSender == SenderInit /\ [][SenderNext]_vars

\* No open window is the SteamCMD console.
NoTargetWindow == "steam_console" \notin sender.open

\* C8: when no visible window matches the target, send_command on Windows
\* and on macOS returns False and changes neither the foreground window nor
\* the clipboard, and sends no keystroke.
C8_NotFoundLeavesDesktop ==
    (sender.phase = "returned" /\ platform # "Linux" /\ NoTargetWindow) =>
        /\ sender.result = FALSE
        /\ sender.foreground = sender.before
        /\ sender.clipboard = <<"earlier">>
        /\ sender.keys = <<>>

\* C9: after a call that focused the target window and whose paste+submit
\* succeeded or raised an error, the window focused before the call is the
\* foreground window again.
C9_FocusRestored ==
    ( /\ sender.phase = "returned"
      /\ sender.focused
      /\ sender.outcome \in {"ok", "error"}
      /\ sender.before # "none" )
        => sender.foreground = sender.before

\* C26: a call that delivered keystrokes put the command on the clipboard
\* and sent one paste keystroke and one submit keystroke; it typed no
\* character of the command.
C26_PastedNeverTyped ==
    (sender.phase = "returned" /\ sender.keys # <<>>) =>
        /\ sender.clipboard = sender.command
        /\ sender.keys = pasted

\* C24, CommandSender: on Linux send_command returns False and leaves the
\* foreground window, the clipboard and the keyboard alone.
C24_SendLinux ==
    (platform = "Linux" /\ sender.phase = "returned") =>
        /\ sender.result = FALSE
        /\ sender.foreground = sender.before
        /\ sender.clipboard = <<"earlier">>
        /\ sender.keys = <<>>
        /\ ~sender.focused

\* C8 and C9, the part the code keeps: both hold of _send_windows.
C8_WindowsNotFoundLeavesDesktop ==
    (sender.phase = "returned" /\ platform = "Windows" /\ NoTargetWindow) =>
        /\ sender.result = FALSE
        /\ Contains(sender.stdout, <<"NOTFOUND">>)
        /\ sender.foreground = sender.before
        /\ sender.clipboard = <<"earlier">>
        /\ sender.keys = <<>>

C9_WindowsFocusRestored ==
    ( /\ sender.phase = "returned"
      /\ platform = "Windows"
      /\ sender.focused
      /\ sender.outcome \in {"ok", "error"}
      /\ sender.before # "none" )
        => sender.foreground = sender.before

(***************************************************************************)
(* The console monitor thread and the login state it shares with the       *)
(* LoginMonitor callbacks.                                                 *)
(***************************************************************************)
ThreadIds == 1..MaxThreads

\* threading.Thread.is_alive of a monitor thread: from start() until
\* monitor_console has returned.
is_alive(pc) == pc \in {"loop", "ended"}

\* No check for a running monitor.
already_monitoring_never(console_monitor_thread, threads) == FALSE

\* console_monitor.py line 15:
\* `helper.console_monitor_thread and helper.console_monitor_thread.is_alive()`
already_monitoring(console_monitor_thread, threads) ==
    /\ console_monitor_thread # 0
    /\ is_alive(threads[console_monitor_thread].pc)

\* The closing iteration goes on polling.
pc_after_closed_no_break == "loop"

\* console_monitor.py line 118: `break`
pc_after_closed == "ended"

\* UploadManager.update_upload_button_state, upload_manager.py line 163, as
\* SteamUploadApp._enable_controls calls it (main_app.py lines 353-357): the
\* upload button is enabled when logged in and a configuration is selected;
\* the argument of _enable_controls plays no part.
update_upload_button_state(logged_in, has_config) == logged_in /\ has_config

\* What the probes of one iteration make of the console: console_closed
\* for the probes a console in that state can produce, or "raise".
iteration_outcomes(window_open) ==
    {IF p.count = "raise" \/ (platform = "Windows" /\ p.tasklist = "raise")
     THEN "raise"
     ELSE IF console_closed(platform, p) THEN "closed" ELSE "open" :
        p \in {q \in ConsoleProbes :
                 /\ q.found = window_open /\ q.process = window_open /\ q.cmd = window_open
                 /\ q.count \in (IF window_open THEN {"some", "failed", "raise"}
                                                ELSE {"zero", "some", "failed", "raise"})
                 /\ q.tasklist \in (IF window_open THEN {"listed", "raise"}
                                                   ELSE {"not_listed", "raise"})}}

NewThread == [pc |-> "unborn", monitor_count |-> 0,
              saw_closed |-> FALSE]   \* history: this thread detected closure

thread_rest == <<buf, verdict, tail, sender, transfer, login_manager, files, proc_alive, windows,
                 _stop_monitoring, _mobile_2fa_shown, sess>>

ThreadInit ==
    /\ platform \in Platforms
    /\ console = [console_monitor_thread |-> 0,
                  threads |-> [t \in ThreadIds |-> NewThread],
                  window_open |-> FALSE,
                  launching |-> FALSE,     \* login_to_steam_console is at the launch
                  caller |-> "none",       \* where the caller of start_console_monitor is
                  raised |-> FALSE,        \* history: start_console_monitor raised
                  login |-> "none",        \* the LoginMonitor session of the launch
                  upload_button |-> FALSE, \* the upload button is enabled
                  has_config |-> TRUE,     \* config_dropdown.value is set
                  upload_in_progress |-> FALSE,
                  run_upload |-> "idle",   \* where the run_upload handler is
                  ignored_starts |-> 0,    \* history: start calls that returned at line 16
                  created |-> 0,           \* history: threads created
                  writers |-> [is_logged_in |-> {}, steamcmd_terminal |-> {}]]
    /\ is_logged_in = FALSE
    /\ steamcmd_terminal = FALSE
    /\ login_button_disabled = FALSE
    /\ buf = <<>> /\ verdict = "none" /\ tail = "none" /\ sender = "none" /\ transfer = "none" /\ login_manager = "none"
    /\ files = [p \in CanonicalPaths |-> NoFile]
    /\ proc_alive = TRUE
    /\ windows = <<>>
    /\ _stop_monitoring = FALSE
    /\ _mobile_2fa_shown = FALSE
    /\ sess = [s \in Sessions |-> IdleSession]

\* login_manager.py lines 115-133: the click on the login button up to the
\* launch of the console.
login_launch ==
    /\ ~login_button_disabled
    /\ ~console.launching
    /\ console.caller = "none"
    /\ console.created < MaxThreads
    /\ steamcmd_terminal' = FALSE
    /\ is_logged_in' = FALSE
    /\ console' = [console EXCEPT !.launching = TRUE]
    /\ UNCHANGED <<platform, login_button_disabled, thread_rest>>

\* start_console_monitor, console_monitor.py lines 13-16 and 129-131: the
\* call returns at line 16, or it has started a thread and is at line 132.
start_console_monitor(c) ==
    IF already_monitoring(c.console_monitor_thread, c.threads)
    THEN [c EXCEPT !.ignored_starts = 1, !.caller = "returned"]
    ELSE LET t == c.created + 1 IN
         [c EXCEPT !.console_monitor_thread = t,
                   !.threads[t].pc = "loop",
                   !.created = t,
                   !.caller = "line132"]

\* login_manager.py lines 146-162: the console is open and the console
\* monitor is started.
login_launched ==
    /\ console.launching
    /\ steamcmd_terminal' = TRUE
    /\ login_button_disabled' = TRUE
    /\ console' = start_console_monitor(
                      [console EXCEPT !.launching = FALSE,
                                      !.window_open = TRUE,
                                      !.upload_button =
                                            update_upload_button_state(
                                                is_logged_in, console.has_config)])
    /\ UNCHANGED <<platform, is_logged_in, thread_rest>>

\* console_monitor.py line 132: the caller reads helper.console_monitor_thread
\* again and calls is_alive() on it; on None that raises AttributeError,
\* which main_app.py lines 389-392 catch.  Then login_manager.py lines
\* 165-170: the LoginMonitor is started.
start_console_monitor_returns ==
    /\ console.caller # "none"
    /\ console' = [console EXCEPT
            !.caller = "none",
            !.raised = @ \/ (console.caller = "line132"
                               /\ console.console_monitor_thread = 0),
            !.login = "pending"]
    /\ UNCHANGED <<platform, is_logged_in, steamcmd_terminal, login_button_disabled,
                   thread_rest>>

\* The LoginMonitor thread's callbacks, login_manager.py lines 190-269.
login_callback(name) ==
    /\ console.login = "pending"
    /\ \/ name = "on_success" /\ console.window_open
       \/ name = "on_failure" /\ console.window_open
       \/ name = "on_process_ended"
    /\ is_logged_in' = callback_is_logged_in(name, is_logged_in)
    /\ steamcmd_terminal' = callback_steamcmd_terminal(name, steamcmd_terminal)
    /\ login_button_disabled' = callback_login_button_disabled(name, login_button_disabled)
    /\ console' = [console EXCEPT
            !.login = name,
            !.upload_button = update_upload_button_state(is_logged_in',
                                                         console.has_config),
            !.writers = [is_logged_in |-> @.is_logged_in \cup {"LoginMonitor"},
                         steamcmd_terminal |->
                            IF name = "on_success" THEN @.steamcmd_terminal
                            ELSE @.steamcmd_terminal \cup {"LoginMonitor"}]]
    /\ UNCHANGED <<platform, thread_rest>>

\* console_monitor.py lines 23-121: the loop condition and one iteration.
monitor_console_iteration(t) ==
    /\ console.threads[t].pc = "loop"
    /\ IF ~(is_logged_in /\ steamcmd_terminal)
       THEN /\ console' = [console EXCEPT !.threads[t].pc = "ended"]
            /\ UNCHANGED <<is_logged_in, steamcmd_terminal, login_button_disabled>>
       ELSE \E outcome \in iteration_outcomes(console.window_open) :
            LET counted == [console EXCEPT !.threads[t].monitor_count =
                                IF @ < MaxMonitorCount THEN @ + 1 ELSE @] IN
            IF outcome = "closed"
            THEN /\ is_logged_in' = FALSE
                 /\ steamcmd_terminal' = FALSE
                 /\ login_button_disabled' = FALSE
                 /\ console' = [counted EXCEPT
                        !.threads[t].pc = pc_after_closed,
                        !.threads[t].saw_closed = TRUE,
                        !.upload_button = update_upload_button_state(
                                              FALSE, console.has_config),
                        !.writers = [is_logged_in |-> @.is_logged_in \cup {"ConsoleMonitor"},
                                     steamcmd_terminal |->
                                        @.steamcmd_terminal \cup {"ConsoleMonitor"}]]
            ELSE /\ console' = counted
                 /\ UNCHANGED <<is_logged_in, steamcmd_terminal, login_button_disabled>>
    /\ UNCHANGED <<platform, thread_rest>>

\* console_monitor.py lines 125-127: the end of monitor_console.
monitor_console_return(t) ==
    /\ console.threads[t].pc = "ended"
    /\ console' = [console EXCEPT !.console_monitor_thread = 0,
                                  !.threads[t].pc = "dead"]
    /\ UNCHANGED <<platform, is_logged_in, steamcmd_terminal, login_button_disabled,
                   thread_rest>>

\* The user closes the console window.
console_window_closes ==
    /\ console.window_open
    /\ console' = [console EXCEPT !.window_open = FALSE]
    /\ UNCHANGED <<platform, is_logged_in, steamcmd_terminal, login_button_disabled,
                   thread_rest>>

ThreadNext ==
    \/ login_launch
    \/ login_launched
    \/ start_console_monitor_returns
    \/ \E name \in {"on_success", "on_failure", "on_process_ended"} : login_callback(name)
    \/ \E t \in ThreadIds : monitor_console_iteration(t)
    \/ \E t \in ThreadIds : monitor_console_return(t)
    \/ console_window_closes

SpecThread == ThreadInit /\ [][ThreadNext]_vars

(***************************************************************************)
(* The same run with the upload button: UploadManager.run_upload and the   *)
(* selection of the upload configuration.                                  *)
(***************************************************************************)
\* UploadManager.run_upload, upload_manager.py lines 170-200: the click on
\* the enabled upload button up to the call of _execute_upload.
\* `valid`: the content path of the configuration exists.
run_upload(valid) ==
    /\ console.upload_button
    /\ console.run_upload = "idle"
    /\ console' =
         IF console.upload_in_progress \/ ~is_logged_in \/ ~console.has_config \/ ~valid
         THEN console
         ELSE [console EXCEPT !.upload_in_progress = TRUE,
                              !.upload_button = FALSE,
                              !.run_upload = "_execute_upload"]
    /\ console' # console
    /\ UNCHANGED <<platform, is_logged_in, steamcmd_terminal, login_button_disabled,
                   thread_rest>>

\* upload_manager.py lines 210-219: _execute_upload has returned or raised;
\* the finally block.
run_upload_finally ==
    /\ console.run_upload = "_execute_upload"
    /\ console' = [console EXCEPT !.upload_button = TRUE,
                                  !.upload_in_progress = FALSE,
                                  !.run_upload = "idle"]
    /\ UNCHANGED <<platform, is_logged_in, steamcmd_terminal, login_button_disabled,
                   thread_rest>>

\* ConfigManager.delete_current_config (config_manager.py lines 113-140) and
\* create_config (lines 165-197): the selection changes and
\* SteamUploadApp._handle_config_changed (main_app.py lines 415-417) updates
\* the controls.  While run_upload is in _execute_upload the modal progress
\* dialog (upload_manager.py lines 237-238) keeps the user from the
\* configuration controls.
config_changed(selected) ==
    /\ console.run_upload = "idle"
    /\ console.has_config # selected
    /\ console' = [console EXCEPT
            !.has_config = selected,
            !.upload_button = update_upload_button_state(is_logged_in, selected)]
    /\ UNCHANGED <<platform, is_logged_in, steamcmd_terminal, login_button_disabled,
                   thread_rest>>

UploadNext ==
    \/ ThreadNext
    \/ \E valid \in BOOLEAN : run_upload(valid)
    \/ run_upload_finally
    \/ \E selected \in BOOLEAN : config_changed(selected)

SpecUpload == ThreadInit /\ [][UploadNext]_vars

\* C34: the upload button is enabled only if helper.is_logged_in is True and
\* an upload configuration is selected.
C34_UploadButtonGuarded ==
    console.upload_button => (is_logged_in /\ console.has_config)

\* C12: at most one console monitor thread is polling at any time.
C12_OneConsoleMonitor ==
    Cardinality({t \in ThreadIds : console.threads[t].pc = "loop"}) <= 1

\* A start call returned without starting a thread, a second thread was
\* started after the first had ended, and a thread is polling.
C12_Witness ==
    /\ console.ignored_starts = 1
    /\ console.created >= 2
    /\ \E t \in ThreadIds :
          console.threads[t].pc = "loop" /\ console.threads[t].monitor_count >= 1

\* C17: a console monitor thread ends only after it has observed the
\* console closed.
C17_PollsUntilClosed ==
    \A t \in ThreadIds :
        console.threads[t].pc \in {"ended", "dead"} => console.threads[t].saw_closed

\* C18: the iteration that detects closure sets is_logged_in and
\* steamcmd_terminal to False, disables the upload button, enables the login
\* button and leaves the loop; the thread probes no more afterwards, and a
\* thread is created only by a start call.
C18_ClosureEndsMonitor ==
    [][ /\ \A t \in ThreadIds :
            /\ (~console.threads[t].saw_closed /\ console'.threads[t].saw_closed) =>
                    /\ ~is_logged_in' /\ ~steamcmd_terminal'
                    /\ ~console'.upload_button
                    /\ ~login_button_disabled'
                    /\ console'.threads[t].pc = "ended"
            /\ console.threads[t].saw_closed =>
                    /\ console'.threads[t].pc \in {"ended", "dead"}
                    /\ console'.threads[t].monitor_count = console.threads[t].monitor_count
        /\ console'.created # console.created =>
                (console.launching /\ ~console'.launching) ]_vars

\* A thread polled, detected closure at a later iteration and has returned.
C18_Witness ==
    \E t \in ThreadIds :
        /\ console.threads[t].saw_closed
        /\ console.threads[t].pc = "dead"
        /\ console.threads[t].monitor_count >= 2
        /\ console.console_monitor_thread = 0

\* C24, the console monitor thread: on Linux no iteration finds the console
\* closed.
C24_ConsoleMonitorLinux ==
    platform = "Linux" => \A t \in ThreadIds : ~console.threads[t].saw_closed

\* C33: while helper.is_logged_in is True a console monitor thread is
\* polling, so that a console closed after the login is detected.
C33_MonitorPollsWhileLoggedIn ==
    is_logged_in => \E t \in ThreadIds : console.threads[t].pc = "loop"

\* C38: start_console_monitor does not raise: its read of
\* helper.console_monitor_thread at line 132 does not observe None.
C38_StartNeverRaises == ~console.raised

\* C20: each of helper.is_logged_in and helper.steamcmd_terminal is written
\* by at most one monitor.
C20_OneWriterPerFlag ==
    /\ Cardinality(console.writers.is_logged_in) <= 1
    /\ Cardinality(console.writers.steamcmd_terminal) <= 1

(***************************************************************************)
(* UploadManager: the upload and download handlers, the settings dialog's  *)
(* help test, the progress dialogs and the completion monitor threads.     *)
(* Each click handler runs in a thread of its own.                         *)
(***************************************************************************)
HandlerIds == 1..MaxHandlers
MonitorIds == 1..MaxMonitors
TransferKinds == {"upload", "download"}
HandlerKinds == TransferKinds \cup {"test_help"}

\* upload_manager.py lines 380 and 554: `max_wait = 600`
max_wait == 600

\* A ConsoleMonitor that has the method, and a console that does not show
\* the completion message.
check_for_pattern_defined == {"False"}

\* ConsoleMonitor.check_for_pattern as called at upload_manager.py lines 431
\* and 655: class ConsoleMonitor (platform_helpers.py lines 583-919) has no
\* attribute of that name, so the call raises AttributeError.
check_for_pattern == {"AttributeError"}

\* upload_manager.py lines 642-647: the phrases _check_download_error looks
\* for; one atom stands for any of them.
DownloadErrorPatterns == {<<"DepotDownloadFailed">>}

\* platform_helpers.py line 796: `read_size = min(1000, file_size)`
read_size_limit == 1000

\* platform_helpers.py lines 794-798: the last read_size bytes of the file.
last_content(text) ==
    LET file_size == Len(text)
        read_size == IF read_size_limit < file_size THEN read_size_limit ELSE file_size
    IN SubSeq(text, file_size - read_size + 1, file_size)

\* ConsoleMonitor.check_for_error_pattern, platform_helpers.py lines 744-814,
\* on the console output `text`: the results a call can return.  macOS reads
\* the whole text of a Terminal window that shows steamcmd or "Steam>";
\* Windows reads the end of logs/console_log.txt under the working directory
\* and its parent; a failed osascript call, a missing file and any exception
\* give False; Linux returns False.
check_for_error_pattern(system, text) ==
    CASE system = "Darwin" ->
            {IF /\ Contains(text, P_steamcmd) \/ Contains(text, P_Prompt)
                /\ \E pattern \in DownloadErrorPatterns : Contains(text, pattern)
             THEN "True" ELSE "False", "False"}
      [] system = "Windows" ->
            {IF \E pattern \in DownloadErrorPatterns :
                    Contains(last_content(text), pattern)
             THEN "True" ELSE "False", "False"}
      [] OTHER -> {"False"}

\* CommandSender.send_command's result: _send_linux returns False.
send_command_results == IF platform = "Linux" THEN {FALSE} ELSE BOOLEAN

\* upload_manager.py lines 172 and 692: the handler's own in-progress flag;
\* test_help_command has none.
in_progress_guard(kind, in_progress) ==
    kind \in TransferKinds /\ in_progress[kind]

NewMonitor == [pc |-> "unborn", kind |-> "none", elapsed |-> 0,
               sent_at |-> 0,             \* history: length of the console output
                                          \* when the command of this run was sent
               reports |-> <<>>,          \* history: dialogs the thread showed
               closed_dialog |-> FALSE]   \* history: the thread closed the progress dialog

transfer_rest == <<buf, verdict, tail, console, sender, login_manager, files, proc_alive, windows,
                   _stop_monitoring, _mobile_2fa_shown, sess, steamcmd_terminal,
                   login_button_disabled>>

\* The UploadManager after construction, beside a console that shows `output`.
TransferStart(output) ==
    [in_progress |-> [k \in TransferKinds |-> FALSE],
     handlers |-> [h \in HandlerIds |-> [pc |-> "idle", kind |-> "none"]],
     progress_dialog |-> [k \in TransferKinds |-> FALSE],
     monitors |-> [m \in MonitorIds |-> NewMonitor],
     output |-> output,       \* what the console window and console_log.txt hold
     started |-> 0,           \* history: monitor threads started
     ignored |-> FALSE,       \* history: a click returned at the in-progress guard
     error_dialog |-> FALSE,  \* history: a click ended in an error dialog
     manual_dialog |-> FALSE] \* history: the manual command dialog was shown

TransferIdle ==
    /\ steamcmd_terminal = FALSE
    /\ login_button_disabled = FALSE
    /\ buf = <<>> /\ verdict = "none" /\ tail = "none" /\ console = "none"
    /\ sender = "none" /\ login_manager = "none"
    /\ files = [p \in CanonicalPaths |-> NoFile]
    /\ proc_alive = TRUE
    /\ windows = <<>>
    /\ _stop_monitoring = FALSE
    /\ _mobile_2fa_shown = FALSE
    /\ sess = [s \in Sessions |-> IdleSession]

TransferInit ==
    /\ platform \in Platforms
    /\ is_logged_in \in BOOLEAN
    /\ transfer = TransferStart(P_Prompt)
    /\ TransferIdle

\* run_upload (lines 170-263 / 298), run_download_with_manifest (lines
\* 690-730, 439 / 472) and test_help_command (system_settings_manager.py
\* lines 113-123) from the click up to the call of send_command.
\* `valid`: the inputs pass the handler's validation.
click(h, kind, valid) ==
    /\ transfer.handlers[h].pc = "idle"
    /\ transfer' =
         IF in_progress_guard(kind, transfer.in_progress)
         THEN [transfer EXCEPT !.ignored = TRUE]
         ELSE IF (kind \in TransferKinds /\ ~is_logged_in) \/ ~valid
         THEN [transfer EXCEPT !.error_dialog = TRUE]
         ELSE IF kind = "test_help"
         THEN [transfer EXCEPT !.handlers[h] = [pc |-> "send_command", kind |-> kind]]
         ELSE IF platform = "Linux"
         THEN \* progress dialog shown and closed, manual dialog, finally
              [transfer EXCEPT !.manual_dialog = TRUE]
         ELSE [transfer EXCEPT !.in_progress[kind] = TRUE,
                               !.progress_dialog[kind] = TRUE,
                               !.handlers[h] = [pc |-> "send_command", kind |-> kind]]
    /\ UNCHANGED <<platform, is_logged_in, transfer_rest>>

\* send_command returns to _execute_upload_* / _execute_download_* (lines
\* 270-283, 304-315, 446-457, 478-489) or to test_send_help; the handler's
\* finally block (lines 215-219, 741-745).
send_command_returns(h, success) ==
    /\ transfer.handlers[h].pc = "send_command"
    /\ success \in send_command_results
    /\ LET kind == transfer.handlers[h].kind
           returned == [transfer EXCEPT !.handlers[h] = [pc |-> "idle", kind |-> "none"]] IN
       IF kind = "test_help"
       THEN transfer' = returned
       ELSE IF success
       THEN /\ transfer.started < MaxMonitors
            /\ LET m == transfer.started + 1 IN
               transfer' = [returned EXCEPT !.in_progress[kind] = FALSE,
                                            !.started = m,
                                            !.monitors[m].sent_at = Len(transfer.output),
                                            !.monitors[m].pc = "sleep",
                                            !.monitors[m].kind = kind]
       ELSE transfer' = [returned EXCEPT !.in_progress[kind] = FALSE,
                                         !.progress_dialog[kind] = FALSE,
                                         !.manual_dialog = TRUE]
    /\ UNCHANGED <<platform, is_logged_in, transfer_rest>>

\* monitor_thread, lines 375-377 and 549-551: the initial time.sleep(2).
monitor_thread_starts(m) ==
    /\ transfer.monitors[m].pc = "sleep"
    /\ transfer' = [transfer EXCEPT !.monitors[m].pc = "loop"]
    /\ UNCHANGED <<platform, is_logged_in, transfer_rest>>

\* The thread closes its progress dialog, shows one dialog and ends.
report(t, m, what) ==
    [t EXCEPT !.progress_dialog[t.monitors[m].kind] = FALSE,
              !.monitors[m].closed_dialog = TRUE,
              !.monitors[m].reports = Append(@, what),
              !.monitors[m].pc = "done"]

\* monitor_thread, lines 384-413 and 561-610: the loop condition, one
\* iteration, and the timeout notice after the loop.  The loop has no
\* try/except.
monitor_thread_iteration(m) ==
    /\ transfer.monitors[m].pc = "loop"
    /\ IF transfer.monitors[m].elapsed < max_wait
       THEN \E complete \in check_for_pattern,
               error \in check_for_error_pattern(platform, transfer.output) :
              transfer' =
                IF complete = "AttributeError"
                THEN [transfer EXCEPT !.monitors[m].pc = "crashed"]
                ELSE IF complete = "True"
                THEN report(transfer, m, "completion")
                ELSE IF transfer.monitors[m].kind = "download" /\ error = "True"
                THEN report(transfer, m, "failure")
                ELSE [transfer EXCEPT !.monitors[m].elapsed = @ + 1]
       ELSE transfer' = report(transfer, m, "timeout")
    /\ UNCHANGED <<platform, is_logged_in, transfer_rest>>

TransferNext ==
    \/ \E h \in HandlerIds, kind \in HandlerKinds, valid \in BOOLEAN : click(h, kind, valid)
    \/ \E h \in HandlerIds, success \in BOOLEAN : send_command_returns(h, success)
    \/ \E m \in MonitorIds : monitor_thread_starts(m)
    \/ \E m \in MonitorIds : monitor_thread_iteration(m)

SpecTransfer == TransferInit /\ [][TransferNext]_vars

\* C16: a completion monitor thread that has ended has shown exactly one of
\* the completion, failure and timeout dialogs and has closed its progress
\* dialog.
C16_MonitorReportsAndClosesDialog ==
    \A m \in MonitorIds :
        transfer.monitors[m].pc \in {"done", "crashed"} =>
            /\ Len(transfer.monitors[m].reports) = 1
            /\ transfer.monitors[m].closed_dialog

\* C35: while a completion monitor thread of a kind (upload, download) is
\* polling, the in-progress flag of that kind is True, and at most one
\* completion monitor thread of that kind exists.
C35_OneCompletionMonitor ==
    \A k \in TransferKinds :
        LET polling == {m \in MonitorIds : /\ transfer.monitors[m].kind = k
                                           /\ transfer.monitors[m].pc \in {"sleep", "loop"}}
        IN /\ polling # {} => transfer.in_progress[k]
           /\ Cardinality(polling) <= 1

(***************************************************************************)
(* A download beside a console whose output may already hold the failure   *)
(* message of an earlier download.                                         *)
(***************************************************************************)
InitialOutputs == {P_Prompt, <<"DepotDownloadFailed", "Prompt">>}
OutputChunks == DownloadErrorPatterns \cup {P_Prompt}

DownloadInit ==
    /\ platform \in Platforms
    /\ is_logged_in = TRUE
    /\ transfer \in {TransferStart(output) : output \in InitialOutputs}
    /\ TransferIdle

\* SteamCMD prints to its console window and to logs/console_log.txt.
steamcmd_prints(chunk) ==
    /\ Len(transfer.output) + Len(chunk) <= MaxFileLen
    /\ transfer' = [transfer EXCEPT !.output = @ \o chunk]
    /\ UNCHANGED <<platform, is_logged_in, transfer_rest>>

DownloadNext ==
    \/ \E h \in HandlerIds, valid \in BOOLEAN : click(h, "download", valid)
    \/ \E h \in HandlerIds, success \in BOOLEAN : send_command_returns(h, success)
    \/ \E m \in MonitorIds : monitor_thread_starts(m)
    \/ \E m \in MonitorIds : monitor_thread_iteration(m)
    \/ \E chunk \in OutputChunks : steamcmd_prints(chunk)

SpecDownload == DownloadInit /\ [][DownloadNext]_vars

\* The console output since the command of monitor m was sent.
output_since(m) ==
    SubSeq(transfer.output, transfer.monitors[m].sent_at + 1, Len(transfer.output))

HasDownloadError(text) == \E pattern \in DownloadErrorPatterns : Contains(text, pattern)

C19_SendCommandSerialized ==
    Cardinality({h \in HandlerIds : transfer.handlers[h].pc = "send_command"}) <= 1

(***************************************************************************)
(* LoginManager: the login button, the dialogs without buttons, the launch *)
(* script with the credentials, and the callbacks its LoginMonitor thread  *)
(* invokes.                                                                *)
(***************************************************************************)
MaxLogins == 2       \* clicks on the login button in one run
MaxLoginChecks == 2  \* iterations the LoginMonitor loop is given (timeout=3600)

DialogKinds == {"login_waiting", "mobile_2fa"}

\* SteamCMDLauncher.launch_steamcmd_console, platform_helpers.py lines
\* 59-62, 103-105 and 146-148: the script the launch writes.
script_path(system) ==
    IF system = "Windows" THEN "steamcmd_session.bat" ELSE "steamcmd_session.sh"

\* LoginManager._cleanup_temp_scripts, login_manager.py lines 307-324.
_cleanup_temp_scripts(lm) ==
    [lm EXCEPT !.configs = @ \ {"steamcmd_session.sh", "steamcmd_session.bat",
                                "steamcmd_2fa_code.txt"}]

\* `if hasattr(self, attr) and self.<attr>: _close_dialog(...); self.<attr> = None`,
\* login_manager.py lines 198-200, 203-205, 231-233, 256-258, 334-336.
close_dialog_if_set(lm, kind) ==
    IF lm.dialog_ref[kind]
    THEN [lm EXCEPT !.open[kind] = @ - 1, !.dialog_ref[kind] = FALSE]
    ELSE lm

\* _show_login_waiting_dialog (lines 286-305) and the second half of
\* _show_mobile_2fa_dialog (lines 338-356): a new dialog is opened and the
\* attribute refers to it.
show_dialog(lm, kind) ==
    [lm EXCEPT !.open[kind] = @ + 1, !.dialog_ref[kind] = TRUE]

\* LoginManager._handle_login_success, lines 190-224.
_handle_login_success(lm) ==
    _cleanup_temp_scripts(
        close_dialog_if_set(close_dialog_if_set(lm, "login_waiting"), "mobile_2fa"))

\* LoginManager._handle_login_failure, lines 226-249.
_handle_login_failure(lm) == close_dialog_if_set(lm, "login_waiting")

\* LoginManager._handle_process_ended, lines 251-269.
_handle_process_ended(lm) == close_dialog_if_set(lm, "login_waiting")

\* LoginManager._handle_login_timeout, lines 271-274.
_handle_login_timeout(lm) == lm

\* LoginManager._handle_mobile_2fa and _show_mobile_2fa_dialog, lines 276-284
\* and 331-356.
_handle_mobile_2fa(lm) ==
    show_dialog(close_dialog_if_set(lm, "login_waiting"), "mobile_2fa")

handler(name, lm) ==
    CASE name = "on_success" -> _handle_login_success(lm)
      [] name = "on_failure" -> _handle_login_failure(lm)
      [] name = "on_process_ended" -> _handle_process_ended(lm)
      [] name = "on_timeout" -> _handle_login_timeout(lm)
      [] name = "on_mobile_2fa" -> _handle_mobile_2fa(lm)

login_ui_rest == <<buf, verdict, tail, console, sender, transfer, files, proc_alive,
                   windows, _stop_monitoring, sess>>

LoginUIInit ==
    /\ platform \in Platforms
    /\ login_manager = [pc |-> "idle",       \* the LoginMonitor thread
                        check_count |-> 0,
                        configs |-> {},       \* files in the configs directory
                        open |-> [k \in DialogKinds |-> 0],   \* open dialogs
                        dialog_ref |-> [k \in DialogKinds |-> FALSE],
                                    \* _login_waiting_dialog / _mobile_2fa_dialog is set
                        logins |-> 0,         \* history: launches
                        outcome |-> "none"]   \* history: the callback that ended
                                              \* the latest session
    /\ is_logged_in = FALSE
    /\ steamcmd_terminal = FALSE
    /\ login_button_disabled = FALSE
    /\ _mobile_2fa_shown = FALSE
    /\ _stop_monitoring = FALSE
    /\ buf = <<>> /\ verdict = "none" /\ tail = "none" /\ console = "none"
    /\ sender = "none" /\ transfer = "none"
    /\ files = [p \in CanonicalPaths |-> NoFile]
    /\ proc_alive = TRUE
    /\ windows = <<>>
    /\ sess = [s \in Sessions |-> IdleSession]

\* LoginManager._login_button_click and login_to_steam_console,
\* login_manager.py lines 103-170, with valid inputs; the launch writes the
\* script (platform_helpers.py lines 57-63, 101-105, 144-149); the
\* LoginMonitor thread is started and comes to its loop (platform_helpers.py
\* lines 342-345 and 417).
login_button_click ==
    /\ ~login_button_disabled
    /\ login_manager.pc # "loop"
    /\ login_manager.logins < MaxLogins
    /\ is_logged_in' = FALSE
    /\ steamcmd_terminal' = TRUE
    /\ login_button_disabled' = TRUE
    /\ _mobile_2fa_shown' = FALSE
    /\ login_manager' =
         show_dialog([login_manager EXCEPT !.configs = @ \cup {script_path(platform)},
                                           !.pc = "loop",
                                           !.check_count = 0,
                                           !.logins = @ + 1,
                                           !.outcome = "none"],
                     "login_waiting")
    /\ UNCHANGED <<platform, login_ui_rest>>

\* What one iteration of the LoginMonitor loop finds: the process gone, or
\* the status the log / the Terminal text classifies to.
LoginStatuses == {"process_ended", "success", "failed", "mobile_2fa_waiting", "unknown"}

\* One callback of the LoginMonitor thread into the LoginManager.
callback(name, ends) ==
    /\ is_logged_in' = callback_is_logged_in(name, is_logged_in)
    /\ steamcmd_terminal' = callback_steamcmd_terminal(name, steamcmd_terminal)
    /\ login_button_disabled' =
            callback_login_button_disabled(name, login_button_disabled)
    /\ login_manager' =
         LET lm == handler(name, login_manager) IN
         IF ends THEN [lm EXCEPT !.pc = "done", !.outcome = name]
                 ELSE [lm EXCEPT !.check_count = @ + 1]

\* LoginMonitor._monitor_windows lines 354-402 and _monitor_macos lines
\* 425-494: the loop condition and one iteration; the on_timeout call after
\* the loop (lines 410-411, 499-500).
login_monitor_iteration(status) ==
    /\ login_manager.pc = "loop"
    /\ IF login_manager.check_count >= MaxLoginChecks
       THEN callback("on_timeout", TRUE) /\ UNCHANGED _mobile_2fa_shown
       ELSE CASE status = "process_ended" ->
                    callback("on_process_ended", TRUE) /\ UNCHANGED _mobile_2fa_shown
              [] status = "success" ->
                    callback("on_success", TRUE) /\ UNCHANGED _mobile_2fa_shown
              [] status = "failed" ->
                    callback("on_failure", TRUE) /\ UNCHANGED _mobile_2fa_shown
              [] status = "mobile_2fa_waiting" /\ ~_mobile_2fa_shown ->
                    callback("on_mobile_2fa", FALSE) /\ _mobile_2fa_shown' = TRUE
              [] OTHER ->
                    /\ login_manager' = [login_manager EXCEPT !.check_count = @ + 1]
                    /\ UNCHANGED <<is_logged_in, steamcmd_terminal,
                                   login_button_disabled, _mobile_2fa_shown>>
    /\ UNCHANGED <<platform, login_ui_rest>>

LoginUINext ==
    \/ login_button_click
    \/ \E status \in LoginStatuses : login_monitor_iteration(status)

SpecLoginUI == LoginUIInit /\ [][LoginUINext]_vars

\* C31: when the latest session has ended in success, failure or process
\* end, no login-waiting dialog and no mobile-2FA dialog is open.
C31_NoDialogLeftOpen ==
    login_manager.outcome \in {"on_success", "on_failure", "on_process_ended"} =>
        \A k \in DialogKinds : login_manager.open[k] = 0

\* C32: when the latest session has ended (success, failure, process end or
\* timeout), the launch script with the credentials does not exist.
C32_ScriptRemoved ==
    login_manager.outcome \in {"on_success", "on_failure", "on_process_ended",
                               "on_timeout"} =>
        login_manager.configs \cap {"steamcmd_session.sh", "steamcmd_session.bat"} = {}

(***************************************************************************)
(* CommandSender.test_send_help: a new SteamCMD window is opened, the      *)
(* steamcmd process and the prompt are waited for, and "help" is sent.     *)
(***************************************************************************)
MaxHelpTests == 2   \* runs of test_send_help

\* command_sender.py line 373: `max_wait = 10`, in steps of
\* process_check_interval = 1.0
help_max_wait == 10

\* command_sender.py line 427: `if prompt_elapsed >= 2.5`, in steps of
\* prompt_wait_interval = 0.5
prompt_enough == 5

\* command_sender.py line 398: subprocess.run(['osascript', ...]) inside the
\* wait loop, on every platform that comes this far.  Windows has no
\* osascript: the call raises FileNotFoundError.
process_check_outcomes(system) ==
    IF system = "Darwin" THEN {"FOUND", "NOTFOUND"} ELSE {"FileNotFoundError"}

NewHelpTest == [pc |-> "idle", opened |-> FALSE, elapsed |-> 0, process_found |-> FALSE,
                prompt_elapsed |-> 0,
                sent |-> FALSE,          \* send_command("help", ...) was called
                send_result |-> FALSE,   \* what that call returned
                result |-> FALSE,        \* what test_send_help returned
                runs |-> 0]              \* history: calls of test_send_help

help_rest == <<buf, verdict, tail, console, transfer, login_manager, files, proc_alive,
               windows, _stop_monitoring, _mobile_2fa_shown, sess, is_logged_in,
               steamcmd_terminal, login_button_disabled>>

HelpInit ==
    /\ platform \in Platforms
    /\ sender = NewHelpTest
    /\ buf = <<>> /\ verdict = "none" /\ tail = "none" /\ console = "none"
    /\ transfer = "none" /\ login_manager = "none"
    /\ LoginIdle

\* command_sender.py lines 317-370: the window is opened; Linux returns False.
test_send_help ==
    /\ sender.pc \in {"idle", "returned"}
    /\ sender.runs < MaxHelpTests
    /\ sender' = IF platform \in {"Windows", "Darwin"}
                 THEN [NewHelpTest EXCEPT !.pc = "wait", !.opened = TRUE,
                                          !.runs = sender.runs + 1]
                 ELSE [NewHelpTest EXCEPT !.pc = "returned", !.result = FALSE,
                                          !.runs = sender.runs + 1]
    /\ UNCHANGED <<platform, help_rest>>

\* command_sender.py lines 378-409 and 411-437: the loop condition and one
\* iteration of the wait for the steamcmd process; line 453-456: an
\* exception ends the call with False.
process_check ==
    /\ sender.pc = "wait"
    /\ IF sender.elapsed < help_max_wait
       THEN \E outcome \in process_check_outcomes(platform) :
              sender' =
                CASE outcome = "FileNotFoundError" ->
                        [sender EXCEPT !.pc = "returned", !.result = FALSE]
                  [] outcome = "FOUND" ->
                        [sender EXCEPT !.process_found = TRUE, !.pc = "prompt"]
                  [] OTHER -> [sender EXCEPT !.elapsed = @ + 1]
       ELSE sender' = [sender EXCEPT !.pc = "send"]
    /\ UNCHANGED <<platform, help_rest>>

\* command_sender.py lines 420-434: one iteration of the wait for the prompt.
prompt_wait ==
    /\ sender.pc = "prompt"
    /\ sender' = [sender EXCEPT
            !.prompt_elapsed = @ + 1,
            !.pc = IF sender.prompt_elapsed + 1 >= prompt_enough THEN "send" ELSE "prompt"]
    /\ UNCHANGED <<platform, help_rest>>

\* command_sender.py lines 440-451: "help" is sent through send_command and
\* its result is returned.
send_help(success) ==
    /\ sender.pc = "send"
    /\ success \in send_command_results
    /\ sender' = [sender EXCEPT !.sent = TRUE, !.send_result = success,
                                !.result = success, !.pc = "returned"]
    /\ UNCHANGED <<platform, help_rest>>

HelpNext ==
    \/ test_send_help
    \/ process_check
    \/ prompt_wait
    \/ \E success \in BOOLEAN : send_help(success)

SpecHelp == HelpInit /\ [][HelpNext]_vars

\* C37: on Windows and on macOS a test_send_help call that opened the window
\* and has returned has sent "help" through send_command and returned that
\* call's result.
C37_HelpAlwaysSent ==
    (/\ platform \in {"Windows", "Darwin"}
     /\ sender.pc = "returned"
     /\ sender.opened)
        => (sender.sent /\ sender.result = sender.send_result)

====
